---------------------------- MODULE Spec2Model ----------------------------
(***************************************************************************)
(* Connector Run Execution Engine (flows/dlt_pipeline_flow.py).            *)
(*                                                                         *)
(* The model follows one worker process that executes connector runs one   *)
(* after the other: run_connector_pipeline creates a run record, reads the *)
(* connector configuration, runs run_dlt_pipeline (for a file store source *)
(* one of the four file-matching adapters, stepped call by call with a     *)
(* failure possible at every call to S3, SFTP, the filesystem or the REST  *)
(* endpoint) and updates the run record.                                   *)
(*                                                                         *)
(* Strings the code inspects character by character (object keys, glob     *)
(* patterns) are sequences of one-character strings.  Absent values are    *)
(* 0 (run id), -1 (a NULL row count) and << >> (a key, a summary).         *)
(***************************************************************************)
EXTENDS Integers, Sequences, FiniteSets, TLC

(***************************************************************************)
(* Bounds of the model.                                                    *)
(***************************************************************************)
\* Invocations of run_connector_pipeline in one behaviour.
MaxRuns == 2

(***************************************************************************)
(* Program constants.                                                      *)
(***************************************************************************)
\* Retry(total=3, ...)
RetryTotal == 3
\* status_forcelist=[429, 500, 502, 503, 504]
StatusForcelist == {429, 500, 502, 503, 504}
\* allowed_methods=["POST", "PUT", "PATCH"]
AllowedMethods == {"POST", "PUT", "PATCH"}

(***************************************************************************)
(* The source store: keys under the configured source path "in", in the    *)
(* order list_objects_v2 returns them (ascending by key).  "in/" is a      *)
(* pseudo-directory marker; "in/s/a.c" shares its bare file name with      *)
(* "in/a.c".                                                               *)
(***************************************************************************)
KeyMarker == <<"i", "n", "/">>
KeyA      == <<"i", "n", "/", "a", ".", "c">>
KeyB      == <<"i", "n", "/", "b", ".", "t">>
KeySubA   == <<"i", "n", "/", "s", "/", "a", ".", "c">>
KeyUniverse == <<KeyMarker, KeyA, KeyB, KeySubA>>
Keys == {KeyUniverse[i] : i \in 1..Len(KeyUniverse)}
NoKey == << >>

\* source_config["path"] and the prefix f"{source_path}/" built from it.
SourcePath == <<"i", "n">>
Prefix == IF SourcePath # << >> THEN SourcePath \o <<"/">> ELSE << >>

\* source_config["file_pattern"] values: "*", "*.c", "in/*.c".
PatStar    == <<"*">>
PatExt     == <<"*", ".", "c">>
PatFullKey == <<"i", "n", "/", "*", ".", "c">>
Patterns == {PatStar, PatExt, PatFullKey}

(***************************************************************************)
(* String helpers.                                                         *)
(***************************************************************************)
\* No key counts as a directory marker.
EndsWithSlash_Never(s) == FALSE

\* str.endswith('/')
EndsWithSlash(s) == s # << >> /\ s[Len(s)] = "/"

\* str.startswith(p)
StartsWith(s, p) == Len(p) <= Len(s) /\ SubSeq(s, 1, Len(p)) = p

\* file_key.split('/')[-1]: what follows the last '/'.
RECURSIVE FileName(_)
FileName(k) ==
    IF k = << >> THEN << >>
    ELSE IF k[Len(k)] = "/" THEN << >>
    ELSE FileName(SubSeq(k, 1, Len(k) - 1)) \o <<k[Len(k)]>>

\* fnmatch as a test of a prefix of the name: the pattern need not reach the
\* end of the name.
RECURSIVE FnMatch_Unanchored(_, _)
FnMatch_Unanchored(s, p) ==
    IF p = << >> THEN TRUE
    ELSE IF Head(p) = "*"
         THEN FnMatch_Unanchored(s, Tail(p)) \/ (s # << >> /\ FnMatch_Unanchored(Tail(s), p))
         ELSE /\ s # << >>
              /\ (Head(p) = "?" \/ Head(p) = Head(s))
              /\ FnMatch_Unanchored(Tail(s), Tail(p))

\* fnmatch.fnmatch(name, pat) on POSIX (normcase is the identity): '*' matches
\* any run of characters, '/' included, '?' any one character, anything else
\* itself.  The patterns of the model hold no '[' class.
RECURSIVE FnMatch(_, _)
FnMatch(s, p) ==
    IF p = << >> THEN s = << >>
    ELSE IF Head(p) = "*"
         THEN FnMatch(s, Tail(p)) \/ (s # << >> /\ FnMatch(Tail(s), p))
         ELSE /\ s # << >>
              /\ (Head(p) = "?" \/ Head(p) = Head(s))
              /\ FnMatch(Tail(s), Tail(p))

\* s3_client.list_objects_v2(Bucket=source_bucket, Prefix=prefix)['Contents']:
\* the keys of the bucket that start with the prefix, in key order.
ListObjectsV2(bucket, prefix) ==
    SelectSeq(KeyUniverse, LAMBDA k : k \in bucket /\ StartsWith(k, prefix))

(***************************************************************************)
(* Pattern tests of the four adapters.                                     *)
(***************************************************************************)
\* move_processed_files_function: the if/elif chain, the test of the full key
\* against the unmodified pattern last.
S3MatchesWith(prefix, file_key, file_pattern) ==
    \/ file_pattern = PatStar
    \/ FnMatch(FileName(file_key), file_pattern)
    \/ FnMatch(file_key, prefix \o file_pattern)
    \/ FnMatch(file_key, file_pattern)

\* transfer_to_sftp_function.
SftpMatchesWith(prefix, file_key, file_pattern) ==
    \/ FnMatch(FileName(file_key), file_pattern)
    \/ FnMatch(file_key, prefix \o file_pattern)
    \/ file_pattern = PatStar

\* transfer_to_filesystem_function.
FsMatchesWith(prefix, file_key, file_pattern) ==
    \/ FnMatch(FileName(file_key), file_pattern)
    \/ FnMatch(file_key, prefix \o file_pattern)
    \/ file_pattern = PatStar

\* transfer_to_rest_api_function.
RestMatchesWith(prefix, file_key, file_pattern) ==
    \/ FnMatch(FileName(file_key), file_pattern)
    \/ FnMatch(file_key, prefix \o file_pattern)
    \/ file_pattern = PatStar

\* The tests with the prefix of the configured source path.
S3Matches(file_key, file_pattern) == S3MatchesWith(Prefix, file_key, file_pattern)
SftpMatches(file_key, file_pattern) == SftpMatchesWith(Prefix, file_key, file_pattern)
FsMatches(file_key, file_pattern) == FsMatchesWith(Prefix, file_key, file_pattern)
RestMatches(file_key, file_pattern) == RestMatchesWith(Prefix, file_key, file_pattern)

(***************************************************************************)
(* Destinations.  A destination holds pairs <<name, content>>, the content *)
(* named by the source key it was read from.  An object store, an SFTP     *)
(* directory and a mounted directory hold one content per name: a write    *)
(* replaces what was under the name.  The REST endpoint receives uploads.  *)
(***************************************************************************)
\* copy_object(Key=dest_key), sftp.put(local, remote_path),
\* download_file(..., local_file): dest_prefix/file_name, path/file_name.
KeyedWrite(store, name, content) ==
    {d \in store : d[1] # name} \cup {<<name, content>>}

\* session.request(..., files={file_field_name: (file_name, f, content_type)})
\* answered with a success status.
RestReceive(store, name, content) == store \cup {<<name, content>>}


(***************************************************************************)
(* Configuration mappings (Python dicts with string keys).                 *)
(***************************************************************************)
EmptyConfig == << >>

\* dict.get(key, default)
Get(cfg, key, default) == IF key \in DOMAIN cfg THEN cfg[key] ELSE default

\* A merge in which the base keeps its value for a key both mappings have.
Merge_BaseWins(base, override) ==
    [k \in DOMAIN base \cup DOMAIN override |->
        IF k \in DOMAIN base THEN base[k] ELSE override[k]]

\* {**base, **override}: the keys of both, the override's value where it has one.
Merge(base, override) ==
    [k \in DOMAIN base \cup DOMAIN override |->
        IF k \in DOMAIN override THEN override[k] ELSE base[k]]

\* A config column that is NULL in the row.
SqlNull == [is_null |-> TRUE]

\* row['source_base_config'] or {}
OrEmpty(column) == IF column = SqlNull \/ column = EmptyConfig THEN EmptyConfig ELSE column

\* source_config = {**source_base, **source_override}, each "or {}".
EffectiveConfig(base, override) == Merge(OrEmpty(base), OrEmpty(override))

\* Destination path templates: a plain path, and one that names {env} and a
\* placeholder str.format is given no value for.
PathPlain == "/mnt/out"
PathBadPlaceholder == "/mnt/{env}/{date}"

\* dest_path.format(project_id=..., env=...) raises KeyError on a placeholder
\* other than {project_id} and {env}; run_dlt_pipeline calls it before its try.
PathFormatRaises(destination_config) ==
    /\ "path" \in DOMAIN destination_config
    /\ destination_config["path"] = PathBadPlaceholder

SourceTypes == {"filesystem", "postgres", "mysql"}
DestTypes == {"s3", "sftp", "nfs", "rest_api", "kafka"}
TransferDestTypes == {"s3", "sftp", "nfs", "filesystem", "rest_api"}
DatabaseSourceTypes == {"sql_database", "postgres", "database"}
Methods == {"POST", "GET"}

\* The connector the store holds, and an id no row has.
KnownConnector == 1
UnknownConnector == 2
ConnectorIds == {KnownConnector, UnknownConnector}

\* A row of cai_connectors joined with its defined source and destination.
MkRow(st, dt, patOverride, methOverride, hasUrl, path) ==
    [ id |-> KnownConnector,
      source_type |-> st,
      dest_type |-> dt,
      source_base_config |-> [bucket |-> "incoming", path |-> SourcePath],
      source_config_override |-> patOverride,
      dest_base_config |->
          IF dt = "rest_api" /\ hasUrl
          THEN [url |-> "https://api", path |-> path]
          ELSE [path |-> path],
      destination_config_override |-> methOverride ]

PatternOverrides ==
    {EmptyConfig, [file_pattern |-> PatExt], [file_pattern |-> PatFullKey]}
MethodOverrides == {EmptyConfig, [method |-> "get"]}
\* A destination override that names the endpoint as endpoint_url.
EndpointOverrides == {EmptyConfig, [endpoint_url |-> "https://alt"]}

IsFileTransfer(st, dt) == st = "filesystem" /\ dt \in TransferDestTypes

ConnectorRows ==
    { MkRow(st, dt, po, mo, u, p) :
        st \in {"filesystem"}, dt \in {"s3", "sftp", "nfs"},
        po \in PatternOverrides, mo \in {EmptyConfig}, u \in {TRUE},
        p \in {PathPlain} }
    \cup
    { MkRow(st, dt, po, mo, u, p) :
        st \in {"filesystem"}, dt \in {"rest_api"},
        po \in {EmptyConfig, [file_pattern |-> PatExt]}, mo \in {EmptyConfig},
        u \in {TRUE}, p \in {PathPlain} }
    \cup
    { MkRow(st, dt, po, mo, u, p) :
        st \in {"filesystem"}, dt \in {"rest_api"},
        po \in {EmptyConfig}, mo \in MethodOverrides, u \in {TRUE},
        p \in {PathPlain} }
    \cup
    { MkRow(st, dt, po, mo, u, p) :
        st \in {"filesystem"}, dt \in {"rest_api"},
        po \in {EmptyConfig}, mo \in EndpointOverrides, u \in {FALSE},
        p \in {PathPlain} }
    \cup
    { MkRow(st, dt, po, mo, u, p) :
        st \in SourceTypes, dt \in DestTypes,
        po \in {EmptyConfig}, mo \in {EmptyConfig}, u \in {TRUE},
        p \in {PathPlain, PathBadPlaceholder} }

(***************************************************************************)
(* Results and run records.                                                *)
(***************************************************************************)
NoRows == -1
NoSummary == << >>
NoResult == [status |-> "none", rows_ingested |-> 0, log_summary |-> NoSummary]

MkResult(status, rows_ingested, summary) ==
    [status |-> status, rows_ingested |-> rows_ingested, log_summary |-> summary]

\* The new value is stored whether it is NULL or not.
Coalesce_AlwaysNew(new, stored, null) == new

\* COALESCE(new, stored)
Coalesce(new, stored, null) == IF new # null THEN new ELSE stored

\* INSERT INTO cai_connector_runs (connector_id, status, prefect_flow_run_id,
\* started_at) VALUES (%s, 'started', %s, NOW()).  `updates` counts the UPDATE
\* statements committed on the row.
NewRunRecord(connector_id) ==
    [ connector_id |-> connector_id,
      status |-> "started",
      finished |-> FALSE,
      rows_ingested |-> NoRows,
      log_summary |-> NoSummary,
      updates |-> 0 ]

\* UPDATE cai_connector_runs SET status = %s, finished_at = NOW(),
\* rows_ingested = COALESCE(%s, rows_ingested),
\* log_summary = COALESCE(%s, log_summary) WHERE id = %s
UpdatedRunRecord(rec, status, rows_ingested, log_summary) ==
    [ rec EXCEPT
        !.status = status,
        !.finished = TRUE,
        !.rows_ingested = Coalesce(rows_ingested, @, NoRows),
        !.log_summary = Coalesce(log_summary, @, NoSummary),
        !.updates = @ + 1 ]

(***************************************************************************)
(* State.                                                                  *)
(***************************************************************************)
VARIABLES
    \* the durable store and the data stores
    row,            \* the connector row of cai_connectors
    runs,           \* cai_connector_runs: run id -> record
    src,            \* keys held by the source bucket
    dst,            \* <<name, content>> pairs held by the destination
    \* run_connector_pipeline
    pc,             \* position in run_connector_pipeline
    invocations,    \* invocations started so far
    connector_id,   \* its argument
    run_id,         \* the run record's id, 0 for None
    config,         \* what read_connector_config returned
    result,         \* what run_dlt_pipeline returned
    exc,            \* the exception being handled, "none" if none
    outcome,        \* what the caller of run_connector_pipeline gets
    \* the file-matching adapter in progress
    apc,            \* position in the adapter
    listing,        \* response['Contents']
    idx,            \* index of the loop over the listing
    count,          \* moved_count / transferred_count
    ret,            \* the adapter's return value
    total,          \* the Retry object's remaining total of the request
    transport,      \* the SFTP transport: "none", "open", "closed"
    \* history
    src0,           \* the source bucket when the batch started
    dst0,           \* the destination when the batch started
    acked,          \* the key whose write this iteration has acknowledged
    aerr,           \* the adapter returned through its except handler
    reqs,           \* HTTP requests sent for the file of this iteration
    uploaded,       \* keys whose upload got a success status in this batch
    failedUploads,  \* keys whose upload ended in a request exception
    exhausted,      \* keys whose upload ended with the Retry exhausted
    answers,        \* what the exchanges of this iteration's request produced
    hist,           \* what the recorder calls of this invocation did
    \* handle_database_source
    dpc,            \* position in handle_database_source
    call,           \* its inputs: the source configuration and the query's outcome
    source_db_port, \* the port of the connection URL, 0 before it is set
    connects,       \* psycopg2.connect calls made
    fetched,        \* rows the cursor has handed out
    test_row,       \* the row fetchone returned, 0 for None
    rows,           \* the batch fetched last
    row_count,      \* rows written, as the function counts them
    written,        \* the rows given to csv_writer.writerow, in order
    scratch,        \* scratch files on disk
    created,        \* scratch files created during the call
    dest_calls,     \* destination calls made: <<kind, rows of the payload>>
    dresult,        \* what handle_database_source returned
    \* one function of the program applied to one input
    fpc,            \* "input" before the application, the function's name after
    arg,            \* the input
    val,            \* the value returned
    \* two calls of move_processed_files_function on one source path
    source_bucket,  \* keys held by the source bucket
    dest_bucket,    \* <<name, content>> pairs held by the destination bucket
    adapters        \* call -> its position and locals

storeVars == <<row, runs, src, dst>>
orchVars == <<pc, invocations, connector_id, run_id, config, result, exc, outcome>>
adapterVars == <<apc, listing, idx, count, ret, total, transport>>
batchHist == <<src0, dst0, acked, aerr, reqs, uploaded, failedUploads, exhausted, answers>>
dbVars == <<dpc, call, source_db_port, connects, fetched, test_row, rows, row_count,
           written, scratch, created, dest_calls, dresult>>
flowVars == <<storeVars, orchVars, adapterVars, batchHist, hist>>
fnVars == <<fpc, arg, val>>
raceVars == <<source_bucket, dest_bucket, adapters>>
vars == <<flowVars, dbVars, fnVars, raceVars>>

\* What the source path holds before the first run: nothing, the directory
\* marker alone, or the marker with two or three of the files.
SourceContents ==
    { {},
      {KeyMarker},
      {KeyMarker, KeyA, KeyB},
      {KeyMarker, KeyA, KeySubA},
      {KeyMarker, KeyA, KeyB, KeySubA} }

\* A connector that reaches no adapter loop, or that overrides the HTTP
\* method or the endpoint, is started on one source only.
SourcesFor(r) ==
    IF ~IsFileTransfer(r.source_type, r.dest_type) THEN {{}}
    ELSE IF "endpoint_url" \in DOMAIN r.destination_config_override
         THEN {{KeyMarker, KeyA}}
    ELSE IF \/ PathFormatRaises(r.dest_base_config)
            \/ r.dest_type = "rest_api" /\ "url" \notin DOMAIN r.dest_base_config
         THEN {Keys}
         ELSE IF r.destination_config_override # EmptyConfig
              THEN {{KeyMarker, KeyA, KeyB}}
              ELSE SourceContents

(***************************************************************************)
(* handle_database_source: the inputs of one call.                         *)
(***************************************************************************)
\* The result sets of the calls have at most MaxRows rows.
MaxRows == 3

\* required_fields, in the order of the dict.
RequiredFields == <<"host", "port", "database", "username", "password", "query">>
RequiredFieldSet == {RequiredFields[i] : i \in DOMAIN RequiredFields}

\* source_db_port = 5432 under "if source_db_port is None".
DefaultPort == 5432
\* The port of a source configuration that has one.
ConfiguredPort == 6543

\* use_temp_file = batch_size > 1000 or source_config.get("use_temp_file", False)
TempFileThreshold == 1000
\* batch_size = source_config.get("batch_size", 10000): the option may be
\* absent from the source configuration.
NoBatchSize == -1
DefaultBatchSize == 10000
BatchSizes == {NoBatchSize, 1, 2, TempFileThreshold, TempFileThreshold + 1}

\* cur.description after execute: None, an empty list, or the columns.
Descriptions == {"none", "empty", "columns"}

\* config.get("destination_type", "s3") of a database-source connector.
DbDestinationTypes == {"s3", "sftp", "nfs", "rest_api"}

\* file_size_mb > 25, with file_size_mb = file_size / (1024 * 1024).
MultipartMb == 25
BytesPerMb == 1024 * 1024

\* The sizes in bytes of the exported CSV: small, the last size of the
\* standard upload and the first size beyond it.
FileSizes == {1, MultipartMb * BytesPerMb, MultipartMb * BytesPerMb + 1}

\* One call: the fields absent from source_config, its options, and what the
\* query produces.
MkCall(missing, cursor, batch_size, use_temp_file, description, result_rows, dt, size) ==
    [ missing |-> missing,
      use_server_side_cursor |-> cursor,
      batch_size |-> batch_size,
      use_temp_file |-> use_temp_file,
      description |-> description,
      result_rows |-> result_rows,
      destination_type |-> dt,
      file_size |-> size ]

\* Every option is varied for a complete configuration; an incomplete one
\* does not get past the validation.
DbCalls ==
    { MkCall(m, TRUE, 1, FALSE, "columns", 1, "s3", 1) :
        m \in (SUBSET RequiredFieldSet) \ {{}} }
    \cup
    { MkCall({}, c, b, t, d, r, dt, sz) :
        c \in BOOLEAN, b \in BatchSizes, t \in BOOLEAN, d \in Descriptions,
        r \in 0..MaxRows, dt \in DbDestinationTypes, sz \in FileSizes }

NoCall == MkCall({}, TRUE, 1, FALSE, "none", 0, "none", 0)

\* No function is applied on its own.
NoArg == [kind |-> "none"]
FnIdle ==
    /\ fpc = "off"
    /\ arg = NoArg
    /\ val = << >>

\* No call of handle_database_source is in progress.
DbIdle ==
    /\ dpc = "idle"
    /\ call = NoCall
    /\ source_db_port = 0
    /\ connects = 0
    /\ fetched = 0
    /\ test_row = 0
    /\ rows = << >>
    /\ row_count = 0
    /\ written = << >>
    /\ scratch = {}
    /\ created = {}
    /\ dest_calls = << >>
    /\ dresult = NoResult

NoOutcome == [kind |-> "none", result |-> NoResult, exc |-> "none"]
Returned(r) == [kind |-> "return", result |-> r, exc |-> "none"]
Raised(e) == [kind |-> "raise", result |-> NoResult, exc |-> e]

\* History of one invocation: records inserted, updates attempted (with the
\* status passed) and committed, recorder calls that raised, the steps that
\* were called, and what config resolution and run_dlt_pipeline produced.
\* No two transfers run side by side.
RaceIdle ==
    /\ source_bucket = {}
    /\ dest_bucket = {}
    /\ adapters = << >>

NoHist ==
    [ created |-> 0, createRaised |-> FALSE,
      updateAttempts |-> 0, updatesCommitted |-> 0, updateRaised |-> FALSE,
      attemptedStatus |-> "none",
      configCalled |-> FALSE, pipelineStarted |-> FALSE,
      firstExc |-> "none", pipelineResult |-> NoResult ]

\* The flow before its first invocation, for connector row r and source
\* contents s.
FlowStart(r, s) ==
    /\ row = r
    /\ runs = << >>
    /\ src = s
    /\ dst = {}
    /\ pc = "idle"
    /\ invocations = 0
    /\ connector_id = 0
    /\ run_id = 0
    /\ config = EmptyConfig
    /\ result = NoResult
    /\ exc = "none"
    /\ outcome = NoOutcome
    /\ apc = "idle"
    /\ listing = << >>
    /\ idx = 0
    /\ count = 0
    /\ ret = 0
    /\ total = 0
    /\ transport = "none"
    /\ src0 = {}
    /\ dst0 = {}
    /\ acked = NoKey
    /\ aerr = FALSE
    /\ reqs = 0
    /\ uploaded = {}
    /\ failedUploads = {}
    /\ exhausted = {}
    /\ answers = {}
    /\ hist = NoHist

Init ==
    /\ \E r \in ConnectorRows : \E s \in SourcesFor(r) : FlowStart(r, s)
    /\ DbIdle
    /\ FnIdle
    /\ RaceIdle

(***************************************************************************)
(* run_connector_pipeline.                                                 *)
(***************************************************************************)
\* The flow is entered: run_id = None.  Nothing of an earlier invocation's
\* local state is kept.
Invoke ==
    /\ pc \in {"idle", "returned", "raised"}
    /\ invocations < MaxRuns
    /\ invocations' = invocations + 1
    /\ \E c \in ConnectorIds : connector_id' = c
    /\ pc' = "create"
    /\ run_id' = 0
    /\ config' = EmptyConfig
    /\ result' = NoResult
    /\ exc' = "none"
    /\ outcome' = NoOutcome
    /\ hist' = NoHist
    /\ apc' = "idle"
    /\ listing' = << >>
    /\ idx' = 0
    /\ count' = 0
    /\ ret' = 0
    /\ total' = 0
    /\ transport' = "none"
    /\ src0' = {}
    /\ dst0' = {}
    /\ acked' = NoKey
    /\ aerr' = FALSE
    /\ reqs' = 0
    /\ uploaded' = {}
    /\ failedUploads' = {}
    /\ exhausted' = {}
    /\ answers' = {}
    /\ UNCHANGED storeVars
    /\ UNCHANGED <<dbVars, fnVars, raceVars>>

\* CreateRunRecord without the try/except around create_run_record: the
\* recorder's exception leaves the flow.
CreateRunRecord_Unguarded ==
    /\ pc = "create"
    /\ \/ /\ runs' = Append(runs, NewRunRecord(connector_id))
          /\ run_id' = Len(runs) + 1
          /\ hist' = [hist EXCEPT !.created = @ + 1]
          /\ pc' = "config"
          /\ UNCHANGED outcome
       \/ /\ run_id' = 0
          /\ hist' = [hist EXCEPT !.createRaised = TRUE]
          /\ outcome' = Raised("RecorderError")
          /\ pc' = "raised"
          /\ UNCHANGED runs
    /\ UNCHANGED <<row, src, dst, invocations, connector_id, config, result, exc,
                   adapterVars, batchHist>>
    /\ UNCHANGED <<dbVars, fnVars, raceVars>>

\* try: run_id = create_run_record(...) except Exception: run_id = None.
\* create_run_record returns the id of the committed row; or raises before
\* the commit (rollback); or raises from conn.close() in its finally, after
\* the commit.
CreateRunRecord ==
    /\ pc = "create"
    /\ \/ /\ runs' = Append(runs, NewRunRecord(connector_id))
          /\ run_id' = Len(runs) + 1
          /\ hist' = [hist EXCEPT !.created = @ + 1]
       \/ /\ run_id' = 0
          /\ hist' = [hist EXCEPT !.createRaised = TRUE]
          /\ UNCHANGED runs
       \/ /\ runs' = Append(runs, NewRunRecord(connector_id))
          /\ run_id' = 0
          /\ hist' = [hist EXCEPT !.created = @ + 1, !.createRaised = TRUE]
    /\ pc' = "config"
    /\ UNCHANGED <<row, src, dst, invocations, connector_id, config, result, exc,
                   outcome, adapterVars, batchHist>>
    /\ UNCHANGED <<dbVars, fnVars, raceVars>>

\* The handler of the outer try is entered with exception e.
Raise(e) ==
    /\ exc' = e
    /\ pc' = "except"
    /\ hist' = [hist EXCEPT !.firstExc = e, !.configCalled = TRUE]

\* read_connector_config without the "if not row" test: an id no row has is
\* answered with the configuration of the row the store holds.
ReadConnectorConfig_MissingRowIgnored ==
    /\ pc = "config"
    /\ \/ /\ Raise("OperationalError")
          /\ UNCHANGED config
       \/ /\ config' =
                [ connector_id |-> connector_id,
                  source_type |-> row.source_type,
                  source_config |->
                      EffectiveConfig(row.source_base_config, row.source_config_override),
                  destination_type |-> row.dest_type,
                  destination_config |->
                      EffectiveConfig(row.dest_base_config, row.destination_config_override) ]
          /\ pc' = "pipeline"
          /\ hist' = [hist EXCEPT !.configCalled = TRUE]
          /\ UNCHANGED exc
    /\ UNCHANGED <<storeVars, invocations, connector_id, run_id, result, outcome,
                   adapterVars, batchHist>>
    /\ UNCHANGED <<dbVars, fnVars, raceVars>>

\* config = read_connector_config(connector_id): the connection to the store
\* fails, no row has the id, or the row's base and override configurations
\* are merged.
ReadConnectorConfig ==
    /\ pc = "config"
    /\ \/ /\ Raise("OperationalError")
          /\ UNCHANGED config
       \/ /\ connector_id # row.id
          /\ Raise("ValueError: Connector not found")
          /\ UNCHANGED config
       \/ /\ connector_id = row.id
          /\ config' =
                [ connector_id |-> connector_id,
                  source_type |-> row.source_type,
                  source_config |->
                      EffectiveConfig(row.source_base_config, row.source_config_override),
                  destination_type |-> row.dest_type,
                  destination_config |->
                      EffectiveConfig(row.dest_base_config, row.destination_config_override) ]
          /\ pc' = "pipeline"
          /\ hist' = [hist EXCEPT !.configCalled = TRUE]
          /\ UNCHANGED exc
    /\ UNCHANGED <<storeVars, invocations, connector_id, run_id, result, outcome,
                   adapterVars, batchHist>>
    /\ UNCHANGED <<dbVars, fnVars, raceVars>>

\* The error result with the status the trigger server's stand-in uses.
ErrorResult_StatusError == MkResult("error", 0, <<"Error">>)

\* run_dlt_pipeline's and handle_database_source's except handlers.
ErrorResult == MkResult("failed", 0, <<"Error">>)

\* What handle_database_source can return.
DatabaseResults ==
    { MkResult("success", n, <<"Exported">>) : n \in {0, 1} } \cup {ErrorResult}

\* The router with the object-store adapter as the fallback of its chain.
TransferFilesFunction_DefaultS3(destination_type) ==
    IF destination_type = "sftp" THEN "sftp_connect"
    ELSE IF destination_type \in {"nfs", "filesystem"} THEN "fs_list"
    ELSE IF destination_type = "rest_api" THEN "rest_config"
    ELSE "s3_list"

\* transfer_files_function: the adapter the destination type selects.
TransferFilesFunction(destination_type) ==
    IF destination_type = "s3" THEN "s3_list"
    ELSE IF destination_type = "sftp" THEN "sftp_connect"
    ELSE IF destination_type \in {"nfs", "filesystem"} THEN "fs_list"
    ELSE IF destination_type = "rest_api" THEN "rest_config"
    ELSE "unsupported"

\* The result run_dlt_pipeline builds from transfer_files_function's count.
TransferResult(transferred_files) ==
    MkResult("success", 0, <<"Transferred", transferred_files>>)

\* result = run_dlt_pipeline(config, project_id, env), up to the call of
\* transfer_files_function.
RunDltPipeline ==
    /\ pc = "pipeline"
    /\ \/ /\ PathFormatRaises(config.destination_config)
          /\ Raise("KeyError")
          /\ UNCHANGED <<result, apc, src0, dst0>>
       \/ /\ ~PathFormatRaises(config.destination_config)
          /\ config.source_type \in DatabaseSourceTypes
          /\ \E r \in DatabaseResults :
                /\ result' = r
                /\ hist' = [hist EXCEPT !.pipelineStarted = TRUE, !.pipelineResult = r]
          /\ pc' = "update"
          /\ UNCHANGED <<exc, apc, src0, dst0>>
       \/ /\ ~PathFormatRaises(config.destination_config)
          /\ config.source_type \notin DatabaseSourceTypes
          /\ ~IsFileTransfer(config.source_type, config.destination_type)
          /\ result' = ErrorResult
          /\ hist' = [hist EXCEPT !.pipelineStarted = TRUE,
                                  !.pipelineResult = ErrorResult]
          /\ pc' = "update"
          /\ UNCHANGED <<exc, apc, src0, dst0>>
       \/ /\ ~PathFormatRaises(config.destination_config)
          /\ IsFileTransfer(config.source_type, config.destination_type)
          /\ apc' = TransferFilesFunction(config.destination_type)
          /\ src0' = src
          /\ dst0' = dst
          /\ pc' = "transfer"
          /\ hist' = [hist EXCEPT !.pipelineStarted = TRUE]
          /\ UNCHANGED <<exc, result>>
    /\ acked' = NoKey
    /\ aerr' = FALSE
    /\ reqs' = 0
    /\ uploaded' = {}
    /\ failedUploads' = {}
    /\ exhausted' = {}
    /\ answers' = {}
    /\ UNCHANGED <<storeVars, invocations, connector_id, run_id, config, outcome,
                   listing, idx, count, ret, total, transport>>
    /\ UNCHANGED <<dbVars, fnVars, raceVars>>

\* transferred_files = transfer_files_function(...); return {"status":
\* "success", "rows_ingested": 0, "log_summary": "Transferred ..."}.
TransferReturn ==
    /\ pc = "transfer"
    /\ apc = "ret"
    /\ result' = TransferResult(ret)
    /\ hist' = [hist EXCEPT !.pipelineResult = TransferResult(ret)]
    /\ pc' = "update"
    /\ apc' = "idle"
    /\ UNCHANGED <<storeVars, invocations, connector_id, run_id, config, exc,
                   outcome, listing, idx, count, ret, total, transport, batchHist>>
    /\ UNCHANGED <<dbVars, fnVars, raceVars>>

\* UpdateRunRecord followed by a statement that raises inside the outer try:
\* the committed update is followed by the handler's update.
UpdateRunRecord_ThenRaises ==
    /\ pc = "update"
    /\ run_id # 0
    /\ runs' = [runs EXCEPT ![run_id] =
                  UpdatedRunRecord(@, result.status, result.rows_ingested,
                                   result.log_summary)]
    /\ exc' = "KeyError"
    /\ pc' = "except"
    /\ hist' = [hist EXCEPT !.updateAttempts = @ + 1, !.updatesCommitted = @ + 1,
                            !.attemptedStatus = result.status,
                            !.firstExc = "KeyError"]
    /\ UNCHANGED <<row, src, dst, invocations, connector_id, run_id, config,
                   result, outcome, adapterVars, batchHist>>
    /\ UNCHANGED <<dbVars, fnVars, raceVars>>

\* UpdateRunRecord returning the result without the terminal update.
UpdateRunRecord_Skipped ==
    /\ pc = "update"
    /\ outcome' = Returned(result)
    /\ pc' = "returned"
    /\ UNCHANGED <<storeVars, invocations, connector_id, run_id, config,
                   result, exc, adapterVars, batchHist, hist>>
    /\ UNCHANGED <<dbVars, fnVars, raceVars>>

\* if run_id is not None: try: update_run_record(run_id, result[...]) except
\* Exception: log; return result.  update_run_record commits and returns;
\* or raises before the commit; or raises from conn.close() in its finally,
\* after the commit.
UpdateRunRecord ==
    /\ pc = "update"
    /\ \/ /\ run_id # 0
          /\ runs' = [runs EXCEPT ![run_id] =
                        UpdatedRunRecord(@, result.status, result.rows_ingested,
                                         result.log_summary)]
          /\ hist' = [hist EXCEPT !.updateAttempts = @ + 1,
                                  !.updatesCommitted = @ + 1,
                                  !.attemptedStatus = result.status]
       \/ /\ run_id # 0
          /\ hist' = [hist EXCEPT !.updateAttempts = @ + 1, !.updateRaised = TRUE,
                                  !.attemptedStatus = result.status]
          /\ UNCHANGED runs
       \/ /\ run_id # 0
          /\ runs' = [runs EXCEPT ![run_id] =
                        UpdatedRunRecord(@, result.status, result.rows_ingested,
                                         result.log_summary)]
          /\ hist' = [hist EXCEPT !.updateAttempts = @ + 1,
                                  !.updatesCommitted = @ + 1,
                                  !.updateRaised = TRUE,
                                  !.attemptedStatus = result.status]
       \/ /\ run_id = 0
          /\ UNCHANGED <<runs, hist>>
    /\ outcome' = Returned(result)
    /\ pc' = "returned"
    /\ UNCHANGED <<row, src, dst, invocations, connector_id, run_id, config,
                   result, exc, adapterVars, batchHist>>
    /\ UNCHANGED <<dbVars, fnVars, raceVars>>

\* FailureUpdate without the update: the handler only re-raises.
FailureUpdate_NoUpdate ==
    /\ pc = "except"
    /\ outcome' = Raised(exc)
    /\ pc' = "raised"
    /\ UNCHANGED <<storeVars, invocations, connector_id, run_id, config,
                   result, exc, adapterVars, batchHist, hist>>
    /\ UNCHANGED <<dbVars, fnVars, raceVars>>

\* FailureUpdate without the inner try/except: an exception of
\* update_run_record replaces the one being handled.
FailureUpdate_MaskedByRecorder ==
    /\ pc = "except"
    /\ \/ /\ run_id # 0
          /\ runs' = [runs EXCEPT ![run_id] =
                        UpdatedRunRecord(@, "failed", NoRows, <<"Flow error", exc>>)]
          /\ hist' = [hist EXCEPT !.updateAttempts = @ + 1,
                                  !.updatesCommitted = @ + 1,
                                  !.attemptedStatus = "failed"]
          /\ outcome' = Raised(exc)
       \/ /\ run_id # 0
          /\ hist' = [hist EXCEPT !.updateAttempts = @ + 1, !.updateRaised = TRUE,
                                  !.attemptedStatus = "failed"]
          /\ outcome' = Raised("RecorderError")
          /\ UNCHANGED runs
       \/ /\ run_id = 0
          /\ outcome' = Raised(exc)
          /\ UNCHANGED <<runs, hist>>
    /\ pc' = "raised"
    /\ UNCHANGED <<row, src, dst, invocations, connector_id, run_id, config,
                   result, exc, adapterVars, batchHist>>
    /\ UNCHANGED <<dbVars, fnVars, raceVars>>

\* except Exception as e: if run_id is not None: try: update_run_record(run_id,
\* status="failed", log_summary=...) except Exception: log; raise.
FailureUpdate ==
    /\ pc = "except"
    /\ \/ /\ run_id # 0
          /\ runs' = [runs EXCEPT ![run_id] =
                        UpdatedRunRecord(@, "failed", NoRows, <<"Flow error", exc>>)]
          /\ hist' = [hist EXCEPT !.updateAttempts = @ + 1,
                                  !.updatesCommitted = @ + 1,
                                  !.attemptedStatus = "failed"]
       \/ /\ run_id # 0
          /\ hist' = [hist EXCEPT !.updateAttempts = @ + 1, !.updateRaised = TRUE,
                                  !.attemptedStatus = "failed"]
          /\ UNCHANGED runs
       \/ /\ run_id # 0
          /\ runs' = [runs EXCEPT ![run_id] =
                        UpdatedRunRecord(@, "failed", NoRows, <<"Flow error", exc>>)]
          /\ hist' = [hist EXCEPT !.updateAttempts = @ + 1,
                                  !.updatesCommitted = @ + 1,
                                  !.updateRaised = TRUE,
                                  !.attemptedStatus = "failed"]
       \/ /\ run_id = 0
          /\ UNCHANGED <<runs, hist>>
    /\ outcome' = Raised(exc)
    /\ pc' = "raised"
    /\ UNCHANGED <<row, src, dst, invocations, connector_id, run_id, config,
                   result, exc, adapterVars, batchHist>>
    /\ UNCHANGED <<dbVars, fnVars, raceVars>>

(***************************************************************************)
(* The adapters' common exits.                                             *)
(***************************************************************************)
\* except Exception as e: logger.error(...); return 0
AdapterExcept ==
    /\ ret' = 0
    /\ aerr' = TRUE
    /\ apc' = "ret"

\* file_key = obj['Key'] of the current iteration.
FileKey == listing[idx]

\* source_config.get("file_pattern", "*")
FilePattern == Get(config.source_config, "file_pattern", PatStar)

(***************************************************************************)
(* move_processed_files_function (object store to object store).           *)
(***************************************************************************)
\* The client is built and the source path listed.
S3List ==
    /\ apc = "s3_list"
    /\ \/ /\ listing' = ListObjectsV2(src, Prefix)
          /\ idx' = 1
          /\ count' = 0
          /\ apc' = "s3_loop"
          /\ UNCHANGED <<ret, aerr>>
       \/ /\ AdapterExcept
          /\ UNCHANGED <<listing, idx, count>>
    /\ UNCHANGED <<storeVars, orchVars, total, transport, src0, dst0, acked, reqs,
                   uploaded, failedUploads, exhausted, answers, hist>>
    /\ UNCHANGED <<dbVars, fnVars, raceVars>>

\* for obj in response['Contents']: skip a directory marker and a key the
\* pattern does not select; return moved_count after the last object.
S3Next ==
    /\ apc = "s3_loop"
    /\ \/ /\ idx > Len(listing)
          /\ ret' = count
          /\ apc' = "ret"
          /\ UNCHANGED idx
       \/ /\ idx <= Len(listing)
          /\ EndsWithSlash(FileKey) \/ ~S3Matches(FileKey, FilePattern)
          /\ idx' = idx + 1
          /\ UNCHANGED <<ret, apc>>
       \/ /\ idx <= Len(listing)
          /\ ~EndsWithSlash(FileKey)
          /\ S3Matches(FileKey, FilePattern)
          /\ apc' = "s3_copy"
          /\ UNCHANGED <<ret, idx>>
    /\ UNCHANGED <<storeVars, orchVars, listing, count, total, transport,
                   batchHist, hist>>
    /\ UNCHANGED <<dbVars, fnVars, raceVars>>

\* S3Copy with a failure of copy_object swallowed: the loop body goes on to
\* the delete without the copy.
S3Copy_FailureSwallowed ==
    /\ apc = "s3_copy"
    /\ apc' = "s3_delete"
    /\ UNCHANGED <<storeVars, orchVars, listing, idx, count, ret, total, transport,
                   batchHist, hist>>
    /\ UNCHANGED <<dbVars, fnVars, raceVars>>

\* A destination key that differs from one run to the next.
DestKey_PerRun(file_key) ==
    FileName(file_key) \o <<IF invocations = 1 THEN "1" ELSE "2">>

\* dest_key = f"{dest_prefix}/{file_name}": the key under the destination
\* prefix, the same in every run.
DestKey(file_key) == FileName(file_key)

\* s3_client.copy_object(CopySource=..., Bucket=dest_bucket, Key=dest_key)
S3Copy ==
    /\ apc = "s3_copy"
    /\ \/ /\ FileKey \in src
          /\ dst' = KeyedWrite(dst, DestKey(FileKey), FileKey)
          /\ acked' = FileKey
          /\ apc' = "s3_delete"
          /\ UNCHANGED <<ret, aerr>>
       \/ /\ AdapterExcept
          /\ UNCHANGED <<dst, acked>>
    /\ UNCHANGED <<row, runs, src, orchVars, listing, idx, count, total, transport,
                   src0, dst0, reqs, uploaded, failedUploads, exhausted, answers, hist>>
    /\ UNCHANGED <<dbVars, fnVars, raceVars>>

\* s3_client.delete_object(Bucket=source_bucket, Key=file_key); moved_count += 1
S3Delete ==
    /\ apc = "s3_delete"
    /\ \/ /\ src' = src \ {FileKey}
          /\ count' = count + 1
          /\ idx' = idx + 1
          /\ acked' = NoKey
          /\ apc' = "s3_loop"
          /\ UNCHANGED <<ret, aerr>>
       \/ /\ AdapterExcept
          /\ UNCHANGED <<src, count, idx, acked>>
    /\ UNCHANGED <<row, runs, dst, orchVars, listing, total, transport,
                   src0, dst0, reqs, uploaded, failedUploads, exhausted, answers, hist>>
    /\ UNCHANGED <<dbVars, fnVars, raceVars>>

(***************************************************************************)
(* transfer_to_sftp_function (object store to SFTP).                       *)
(***************************************************************************)
\* SftpConnect with the failure to open the session logged and passed over.
SftpConnect_FailureIgnored ==
    /\ apc = "sftp_connect"
    /\ \/ transport' = "open"
       \/ UNCHANGED transport
    /\ apc' = "sftp_list"
    /\ UNCHANGED <<storeVars, orchVars, listing, idx, count, ret, total, batchHist,
                   hist>>
    /\ UNCHANGED <<dbVars, fnVars, raceVars>>

\* paramiko.Transport(...); transport.connect(...); SFTPClient.from_transport
SftpConnect ==
    /\ apc = "sftp_connect"
    /\ \/ /\ transport' = "open"
          /\ apc' = "sftp_list"
          /\ UNCHANGED <<ret, aerr>>
       \/ /\ AdapterExcept
          /\ UNCHANGED transport
    /\ UNCHANGED <<storeVars, orchVars, listing, idx, count, total, src0, dst0, acked,
                   reqs, uploaded, failedUploads, exhausted, answers, hist>>
    /\ UNCHANGED <<dbVars, fnVars, raceVars>>

\* response = s3_client.list_objects_v2(...)
SftpList ==
    /\ apc = "sftp_list"
    /\ \/ /\ listing' = ListObjectsV2(src, Prefix)
          /\ idx' = 1
          /\ count' = 0
          /\ apc' = "sftp_loop"
          /\ UNCHANGED <<ret, aerr>>
       \/ /\ AdapterExcept
          /\ UNCHANGED <<listing, idx, count>>
    /\ UNCHANGED <<storeVars, orchVars, total, transport, src0, dst0, acked, reqs,
                   uploaded, failedUploads, exhausted, answers, hist>>
    /\ UNCHANGED <<dbVars, fnVars, raceVars>>

\* The loop head; after the last object sftp.close(), transport.close() and
\* return transferred_count.
SftpNext ==
    /\ apc = "sftp_loop"
    /\ \/ /\ idx > Len(listing)
          /\ transport' = "closed"
          /\ ret' = count
          /\ apc' = "ret"
          /\ UNCHANGED idx
       \/ /\ idx <= Len(listing)
          /\ EndsWithSlash(FileKey) \/ ~SftpMatches(FileKey, FilePattern)
          /\ idx' = idx + 1
          /\ UNCHANGED <<ret, apc, transport>>
       \/ /\ idx <= Len(listing)
          /\ ~EndsWithSlash(FileKey)
          /\ SftpMatches(FileKey, FilePattern)
          /\ apc' = "sftp_download"
          /\ UNCHANGED <<ret, idx, transport>>
    /\ UNCHANGED <<storeVars, orchVars, listing, count, total, batchHist, hist>>
    /\ UNCHANGED <<dbVars, fnVars, raceVars>>

\* s3_client.download_file(source_bucket, file_key, local_file)
SftpDownload ==
    /\ apc = "sftp_download"
    /\ \/ /\ FileKey \in src
          /\ apc' = "sftp_put"
          /\ UNCHANGED <<ret, aerr>>
       \/ AdapterExcept
    /\ UNCHANGED <<storeVars, orchVars, listing, idx, count, total, transport,
                   src0, dst0, acked, reqs, uploaded, failedUploads, exhausted, answers, hist>>
    /\ UNCHANGED <<dbVars, fnVars, raceVars>>

\* sftp.put(local_file, remote_path)
SftpPut ==
    /\ apc = "sftp_put"
    /\ \/ /\ dst' = KeyedWrite(dst, FileName(FileKey), FileKey)
          /\ acked' = FileKey
          /\ apc' = "sftp_delete"
          /\ UNCHANGED <<ret, aerr>>
       \/ /\ AdapterExcept
          /\ UNCHANGED <<dst, acked>>
    /\ UNCHANGED <<row, runs, src, orchVars, listing, idx, count, total, transport,
                   src0, dst0, reqs, uploaded, failedUploads, exhausted, answers, hist>>
    /\ UNCHANGED <<dbVars, fnVars, raceVars>>

\* s3_client.delete_object(...); transferred_count += 1
SftpDelete ==
    /\ apc = "sftp_delete"
    /\ \/ /\ src' = src \ {FileKey}
          /\ count' = count + 1
          /\ idx' = idx + 1
          /\ acked' = NoKey
          /\ apc' = "sftp_loop"
          /\ UNCHANGED <<ret, aerr>>
       \/ /\ AdapterExcept
          /\ UNCHANGED <<src, count, idx, acked>>
    /\ UNCHANGED <<row, runs, dst, orchVars, listing, total, transport,
                   src0, dst0, reqs, uploaded, failedUploads, exhausted, answers, hist>>
    /\ UNCHANGED <<dbVars, fnVars, raceVars>>

(***************************************************************************)
(* transfer_to_filesystem_function (object store to a mounted path).       *)
(***************************************************************************)
\* os.makedirs(dest_path, exist_ok=True); response = list_objects_v2(...)
FsList ==
    /\ apc = "fs_list"
    /\ \/ /\ listing' = ListObjectsV2(src, Prefix)
          /\ idx' = 1
          /\ count' = 0
          /\ apc' = "fs_loop"
          /\ UNCHANGED <<ret, aerr>>
       \/ /\ AdapterExcept
          /\ UNCHANGED <<listing, idx, count>>
    /\ UNCHANGED <<storeVars, orchVars, total, transport, src0, dst0, acked, reqs,
                   uploaded, failedUploads, exhausted, answers, hist>>
    /\ UNCHANGED <<dbVars, fnVars, raceVars>>

FsNext ==
    /\ apc = "fs_loop"
    /\ \/ /\ idx > Len(listing)
          /\ ret' = count
          /\ apc' = "ret"
          /\ UNCHANGED idx
       \/ /\ idx <= Len(listing)
          /\ EndsWithSlash(FileKey) \/ ~FsMatches(FileKey, FilePattern)
          /\ idx' = idx + 1
          /\ UNCHANGED <<ret, apc>>
       \/ /\ idx <= Len(listing)
          /\ ~EndsWithSlash(FileKey)
          /\ FsMatches(FileKey, FilePattern)
          /\ apc' = "fs_download"
          /\ UNCHANGED <<ret, idx>>
    /\ UNCHANGED <<storeVars, orchVars, listing, count, total, transport,
                   batchHist, hist>>
    /\ UNCHANGED <<dbVars, fnVars, raceVars>>

\* s3_client.download_file(source_bucket, file_key, local_file) with
\* local_file = os.path.join(dest_path, file_name): the write to the destination.
FsDownload ==
    /\ apc = "fs_download"
    /\ \/ /\ FileKey \in src
          /\ dst' = KeyedWrite(dst, FileName(FileKey), FileKey)
          /\ acked' = FileKey
          /\ apc' = "fs_delete"
          /\ UNCHANGED <<ret, aerr>>
       \/ /\ AdapterExcept
          /\ UNCHANGED <<dst, acked>>
    /\ UNCHANGED <<row, runs, src, orchVars, listing, idx, count, total, transport,
                   src0, dst0, reqs, uploaded, failedUploads, exhausted, answers, hist>>
    /\ UNCHANGED <<dbVars, fnVars, raceVars>>

\* s3_client.delete_object(...); transferred_count += 1
FsDelete ==
    /\ apc = "fs_delete"
    /\ \/ /\ src' = src \ {FileKey}
          /\ count' = count + 1
          /\ idx' = idx + 1
          /\ acked' = NoKey
          /\ apc' = "fs_loop"
          /\ UNCHANGED <<ret, aerr>>
       \/ /\ AdapterExcept
          /\ UNCHANGED <<src, count, idx, acked>>
    /\ UNCHANGED <<row, runs, dst, orchVars, listing, total, transport,
                   src0, dst0, reqs, uploaded, failedUploads, exhausted, answers, hist>>
    /\ UNCHANGED <<dbVars, fnVars, raceVars>>

(***************************************************************************)
(* transfer_to_rest_api_function (object store to a REST endpoint).        *)
(***************************************************************************)
\* str.upper() of the configured method names.
Upper(m) ==
    CASE m = "get" -> "GET"
      [] m = "post" -> "POST"
      [] OTHER -> m

\* destination_config.get("method", "POST").upper()
HttpMethod == Upper(Get(config.destination_config, "method", "POST"))

\* What one HTTP exchange can produce: a response status, or no response.
ConnectionFailed == 0
Exchanges == {200, 404, 503, ConnectionFailed}

\* urllib3 Retry.increment: one less in total.
Increment(t) == t - 1

\* A Retry that is exhausted when nothing is left, not when less than nothing.
IsExhausted_AtZero(t) == t <= 0

\* urllib3 Retry.is_exhausted: a count below zero.
IsExhausted(t) == t < 0

\* A Retry whose status_forcelist applies to every method.
IsRetry_AnyMethod(method, status) == status \in StatusForcelist

\* Retry.is_retry(method, status_code): the method is allowed and the status
\* is in the forcelist.
IsRetry(method, status) == method \in AllowedMethods /\ status \in StatusForcelist

\* Response.raise_for_status(): HTTPError for 4xx and 5xx.
RaisesForStatus(status) == 400 <= status /\ status < 600

\* api_url = destination_config.get("url") or
\* destination_config.get("endpoint_url"): "" when neither has a value.
ApiUrl(destination_config) ==
    IF Get(destination_config, "url", "") # ""
    THEN destination_config["url"]
    ELSE Get(destination_config, "endpoint_url", "")

\* RestConfig without the test of api_url.
RestConfig_UrlNotRequired ==
    /\ apc = "rest_config"
    /\ apc' = "rest_list"
    /\ UNCHANGED <<ret, aerr>>
    /\ UNCHANGED <<storeVars, orchVars, listing, idx, count, total, transport,
                   src0, dst0, acked, reqs, uploaded, failedUploads, exhausted, answers, hist>>
    /\ UNCHANGED <<dbVars, fnVars, raceVars>>

\* if not api_url: raise ValueError; with a URL the session and its Retry
\* are configured.
RestConfig ==
    /\ apc = "rest_config"
    /\ \/ /\ ApiUrl(config.destination_config) # ""
          /\ apc' = "rest_list"
          /\ UNCHANGED <<ret, aerr>>
       \/ /\ ApiUrl(config.destination_config) = ""
          /\ AdapterExcept
    /\ UNCHANGED <<storeVars, orchVars, listing, idx, count, total, transport,
                   src0, dst0, acked, reqs, uploaded, failedUploads, exhausted, answers, hist>>
    /\ UNCHANGED <<dbVars, fnVars, raceVars>>

\* response = s3_client.list_objects_v2(...)
RestList ==
    /\ apc = "rest_list"
    /\ \/ /\ listing' = ListObjectsV2(src, Prefix)
          /\ idx' = 1
          /\ count' = 0
          /\ apc' = "rest_loop"
          /\ UNCHANGED <<ret, aerr>>
       \/ /\ AdapterExcept
          /\ UNCHANGED <<listing, idx, count>>
    /\ UNCHANGED <<storeVars, orchVars, total, transport, src0, dst0, acked, reqs,
                   uploaded, failedUploads, exhausted, answers, hist>>
    /\ UNCHANGED <<dbVars, fnVars, raceVars>>

\* The loop head; after the last object session.close() and return
\* transferred_count.
RestNext ==
    /\ apc = "rest_loop"
    /\ \/ /\ idx > Len(listing)
          /\ ret' = count
          /\ apc' = "ret"
          /\ UNCHANGED idx
       \/ /\ idx <= Len(listing)
          /\ EndsWithSlash(FileKey) \/ ~RestMatches(FileKey, FilePattern)
          /\ idx' = idx + 1
          /\ UNCHANGED <<ret, apc>>
       \/ /\ idx <= Len(listing)
          /\ ~EndsWithSlash(FileKey)
          /\ RestMatches(FileKey, FilePattern)
          /\ apc' = "rest_download"
          /\ UNCHANGED <<ret, idx>>
    /\ reqs' = 0
    /\ answers' = {}
    /\ UNCHANGED <<storeVars, orchVars, listing, count, total, transport,
                   src0, dst0, acked, aerr, uploaded, failedUploads, exhausted, hist>>
    /\ UNCHANGED <<dbVars, fnVars, raceVars>>

\* s3_client.download_file(source_bucket, file_key, local_file); the request
\* that follows starts with the adapter's Retry(total=3).
RestDownload ==
    /\ apc = "rest_download"
    /\ \/ /\ FileKey \in src
          /\ total' = RetryTotal
          /\ apc' = "rest_request"
          /\ UNCHANGED <<ret, aerr>>
       \/ /\ AdapterExcept
          /\ UNCHANGED total
    /\ UNCHANGED <<storeVars, orchVars, listing, idx, count, transport,
                   src0, dst0, acked, reqs, uploaded, failedUploads, exhausted, answers, hist>>
    /\ UNCHANGED <<dbVars, fnVars, raceVars>>

\* The file's request fails with a RequestException: logged, continue.
RestContinue ==
    /\ failedUploads' = failedUploads \cup {FileKey}
    /\ idx' = idx + 1
    /\ apc' = "rest_loop"

\* One HTTP exchange of session.request(method=http_method, ...): every
\* request starts from the session's Retry(total=3) and counts down its own
\* copy.  The exchange is followed by
\* api_response.raise_for_status(): a connection failure or a response the
\* Retry selects is sent again until the Retry is exhausted (RetryError,
\* ConnectionError); an error status raises HTTPError; any other response
\* is the acknowledgement.
RestRequest ==
    /\ apc = "rest_request"
    /\ reqs' = reqs + 1
    /\ \E x \in Exchanges :
        /\ answers' = answers \cup {x}
        /\ \/ /\ x = ConnectionFailed \/ IsRetry(HttpMethod, x)
              /\ ~IsExhausted(Increment(total))
              /\ total' = Increment(total)
              /\ UNCHANGED <<dst, acked, uploaded, failedUploads, exhausted, idx, apc>>
           \/ /\ x = ConnectionFailed \/ IsRetry(HttpMethod, x)
              /\ IsExhausted(Increment(total))
              /\ RestContinue
              /\ exhausted' = exhausted \cup {FileKey}
              /\ total' = RetryTotal
              /\ UNCHANGED <<dst, acked, uploaded>>
           \/ /\ x # ConnectionFailed
              /\ ~IsRetry(HttpMethod, x)
              /\ RaisesForStatus(x)
              /\ RestContinue
              /\ total' = RetryTotal
              /\ UNCHANGED <<dst, acked, uploaded, exhausted>>
           \/ /\ x # ConnectionFailed
              /\ ~IsRetry(HttpMethod, x)
              /\ ~RaisesForStatus(x)
              /\ dst' = RestReceive(dst, FileName(FileKey), FileKey)
              /\ acked' = FileKey
              /\ uploaded' = uploaded \cup {FileKey}
              /\ apc' = "rest_delete"
              /\ total' = RetryTotal
              /\ UNCHANGED <<failedUploads, exhausted, idx>>
    /\ UNCHANGED <<row, runs, src, orchVars, listing, count, ret, transport,
                   src0, dst0, aerr, hist>>
    /\ UNCHANGED <<dbVars, fnVars, raceVars>>

\* s3_client.delete_object(...); transferred_count += 1.  A failure of the
\* delete is no RequestException: it leaves through the outer handler.
RestDelete ==
    /\ apc = "rest_delete"
    /\ \/ /\ src' = src \ {FileKey}
          /\ count' = count + 1
          /\ idx' = idx + 1
          /\ acked' = NoKey
          /\ apc' = "rest_loop"
          /\ UNCHANGED <<ret, aerr>>
       \/ /\ AdapterExcept
          /\ UNCHANGED <<src, count, idx, acked>>
    /\ UNCHANGED <<row, runs, dst, orchVars, listing, total, transport,
                   src0, dst0, reqs, uploaded, failedUploads, exhausted, answers, hist>>
    /\ UNCHANGED <<dbVars, fnVars, raceVars>>

Next ==
    \/ Invoke
    \/ CreateRunRecord
    \/ ReadConnectorConfig
    \/ RunDltPipeline
    \/ TransferReturn
    \/ UpdateRunRecord
    \/ FailureUpdate
    \/ S3List
    \/ S3Next
    \/ S3Copy
    \/ S3Delete
    \/ SftpConnect
    \/ SftpList
    \/ SftpNext
    \/ SftpDownload
    \/ SftpPut
    \/ SftpDelete
    \/ FsList
    \/ FsNext
    \/ FsDownload
    \/ FsDelete
    \/ RestConfig
    \/ RestList
    \/ RestNext
    \/ RestDownload
    \/ RestRequest
    \/ RestDelete

Spec == Init /\ [][Next]_vars

(***************************************************************************)
(* handle_database_source: one call, from the validation of source_config  *)
(* to the result dictionary.  Rows of the result set are numbered from 1.  *)
(***************************************************************************)
Min(a, b) == IF a <= b THEN a ELSE b

\* The rows first..last of the result set, in order.
RowRange(first, last) == [i \in 1..(IF last >= first THEN last - first + 1 ELSE 0) |-> first + i - 1]

\* Only the first absent field is reported.
MissingFields_FirstOnly(c) ==
    LET absent == SelectSeq(RequiredFields, LAMBDA f : f \in c.missing)
    IN  IF absent = << >> THEN absent ELSE <<absent[1]>>

\* missing_fields = [field for field, value in required_fields.items() if value is None]
MissingFields(c) == SelectSeq(RequiredFields, LAMBDA f : f \in c.missing)

\* use_temp_file = batch_size > 1000 or source_config.get("use_temp_file", False)
BatchSize(c) == IF c.batch_size = NoBatchSize THEN DefaultBatchSize ELSE c.batch_size

\* The scratch file is chosen from the threshold on.
UseTempFile_AtThreshold(c) == BatchSize(c) >= TempFileThreshold \/ c.use_temp_file

UseTempFile(c) == BatchSize(c) > TempFileThreshold \/ c.use_temp_file

\* The outer "except Exception as e" of handle_database_source.
DbFailed(e) == MkResult("failed", 0, <<"Error">> \o e)

\* The result of a call that found nothing to export.
DbNoRowsResult == MkResult("success", 0, <<"Query returned no rows. No CSV file created.">>)

\* One call of a destination: the operation, the rows of the payload it was
\* handed, and whether it returned.
MkDestCall(op, payload, ok) == [op |-> op, payload |-> payload, ok |-> ok]

\* An exception reaches the outer handler; cursor and connection are closed
\* by the finally clauses, nothing else is undone.
DbRaise(e) ==
    /\ dresult' = DbFailed(e)
    /\ dpc' = "done"

\* A connector whose source is a database.
DbRow == MkRow("postgres", "s3", EmptyConfig, EmptyConfig, TRUE, PathPlain)

\* A call of handle_database_source starts; the flow around it is at rest.
InitDb ==
    /\ FlowStart(DbRow, {})
    /\ RaceIdle
    /\ dpc = "validate"
    /\ call \in DbCalls
    /\ source_db_port = 0
    /\ connects = 0
    /\ fetched = 0
    /\ test_row = 0
    /\ rows = << >>
    /\ row_count = 0
    /\ written = << >>
    /\ scratch = {}
    /\ created = {}
    /\ dest_calls = << >>
    /\ dresult = NoResult
    /\ FnIdle

\* required_fields are read and checked; the port default follows the check.
DbValidate ==
    /\ dpc = "validate"
    /\ IF MissingFields(call) # << >>
         THEN /\ DbRaise(<<"Missing required source configuration fields">>
                         \o MissingFields(call))
              /\ UNCHANGED source_db_port
         ELSE /\ source_db_port' = IF "port" \in call.missing THEN DefaultPort
                                   ELSE ConfiguredPort
              /\ dpc' = "connect"
              /\ UNCHANGED dresult
    /\ UNCHANGED <<call, connects, fetched, test_row, rows, row_count, written,
                   scratch, created, dest_calls>>
    /\ UNCHANGED <<flowVars, fnVars, raceVars>>

\* psycopg2.connect and the creation of the cursor.
DbConnect ==
    /\ dpc = "connect"
    /\ connects' = connects + 1
    /\ \/ /\ dpc' = "execute"
          /\ UNCHANGED dresult
       \/ DbRaise(<<"connection refused">>)
    /\ UNCHANGED <<call, source_db_port, fetched, test_row, rows, row_count,
                   written, scratch, created, dest_calls>>
    /\ UNCHANGED <<flowVars, fnVars, raceVars>>

\* cur.execute(source_query), and on a server-side cursor the fetchone that
\* peeks at the first row.
DbExecute ==
    /\ dpc = "execute"
    /\ \/ /\ IF call.use_server_side_cursor /\ call.result_rows > 0
               THEN test_row' = 1 /\ fetched' = 1
               ELSE test_row' = 0 /\ fetched' = 0
          /\ dpc' = "describe"
          /\ UNCHANGED dresult
       \/ /\ DbRaise(<<"query failed">>)
          /\ UNCHANGED <<test_row, fetched>>
    /\ UNCHANGED <<call, source_db_port, connects, rows, row_count, written,
                   scratch, created, dest_calls>>
    /\ UNCHANGED <<flowVars, fnVars, raceVars>>

\* The checks of cur.description and of column_names.
DbDescribe ==
    /\ dpc = "describe"
    /\ IF call.description = "none"
         THEN IF call.use_server_side_cursor /\ test_row = 0
                THEN /\ dresult' = DbNoRowsResult
                     /\ dpc' = "done"
                ELSE DbRaise(<<"Query must be a SELECT statement that returns rows.">>)
         ELSE IF call.description = "empty"
                THEN DbRaise(<<"Query returned no columns">>)
                ELSE /\ dpc' = "open"
                     /\ UNCHANGED dresult
    /\ UNCHANGED <<call, source_db_port, connects, fetched, test_row, rows,
                   row_count, written, scratch, created, dest_calls>>
    /\ UNCHANGED <<flowVars, fnVars, raceVars>>

\* The CSV writer is opened on a scratch file or on an in-memory buffer and
\* the header is written; row_count = 0.
DbOpenOutput ==
    /\ dpc = "open"
    /\ IF UseTempFile(call)
         THEN /\ scratch' = scratch \cup {"temp_file"}
              /\ created' = created \cup {"temp_file"}
         ELSE UNCHANGED <<scratch, created>>
    /\ row_count' = 0
    /\ written' = << >>
    /\ dpc' = "first"
    /\ UNCHANGED <<call, source_db_port, connects, fetched, test_row, rows,
                   dest_calls, dresult>>
    /\ UNCHANGED <<flowVars, fnVars, raceVars>>

\* The row the peek fetched is dropped instead of being written.
DbFirstRow_PeekDiscarded ==
    /\ dpc = "first"
    /\ dpc' = "fetch"
    /\ UNCHANGED <<written, row_count, dresult>>
    /\ UNCHANGED <<call, source_db_port, connects, fetched, test_row, rows,
                   scratch, created, dest_calls>>
    /\ UNCHANGED <<flowVars, fnVars, raceVars>>

\* The row the peek fetched is written first.
DbFirstRow ==
    /\ dpc = "first"
    /\ IF call.use_server_side_cursor /\ test_row # 0
         THEN \/ /\ written' = Append(written, test_row)
                 /\ row_count' = row_count + 1
                 /\ dpc' = "fetch"
                 /\ UNCHANGED dresult
              \/ /\ DbRaise(<<"write failed">>)
                 /\ UNCHANGED <<written, row_count>>
         ELSE /\ dpc' = "fetch"
              /\ UNCHANGED <<written, row_count, dresult>>
    /\ UNCHANGED <<call, source_db_port, connects, fetched, test_row, rows,
                   scratch, created, dest_calls>>
    /\ UNCHANGED <<flowVars, fnVars, raceVars>>

\* cur.fetchmany(batch_size) on a server-side cursor, cur.fetchall() on a
\* regular one; an empty batch ends the loop.
DbFetch ==
    /\ dpc = "fetch"
    /\ \/ LET last == IF call.use_server_side_cursor
                        THEN Min(fetched + BatchSize(call), call.result_rows)
                        ELSE call.result_rows
              batch == RowRange(fetched + 1, last)
          IN  /\ rows' = batch
              /\ fetched' = IF batch = << >> THEN fetched ELSE last
              /\ dpc' = IF batch = << >> THEN "export" ELSE "write"
              /\ UNCHANGED dresult
       \/ /\ DbRaise(<<"fetch failed">>)
          /\ UNCHANGED <<rows, fetched>>
    /\ UNCHANGED <<call, source_db_port, connects, test_row, row_count, written,
                   scratch, created, dest_calls>>
    /\ UNCHANGED <<flowVars, fnVars, raceVars>>

\* The batch is written row by row; a regular cursor leaves the loop after
\* its only batch.
DbWrite ==
    /\ dpc = "write"
    /\ \/ /\ written' = written \o rows
          /\ row_count' = row_count + Len(rows)
          /\ dpc' = IF call.use_server_side_cursor THEN "fetch" ELSE "export"
          /\ UNCHANGED dresult
       \/ \E n \in 0..(Len(rows) - 1) :
            /\ written' = written \o SubSeq(rows, 1, n)
            /\ row_count' = row_count + n
            /\ DbRaise(<<"write failed">>)
    /\ UNCHANGED <<call, source_db_port, connects, fetched, test_row, rows,
                   scratch, created, dest_calls>>
    /\ UNCHANGED <<flowVars, fnVars, raceVars>>

\* The zero-row return without the removal of the scratch file.
DbNoRows_FileKept ==
    /\ dpc = "export"
    /\ row_count = 0
    /\ dresult' = DbNoRowsResult
    /\ dpc' = "done"
    /\ UNCHANGED <<call, source_db_port, connects, fetched, test_row, rows,
                   row_count, written, scratch, created, dest_calls>>
    /\ UNCHANGED <<flowVars, fnVars, raceVars>>

\* row_count == 0 after the loop: the scratch file is closed and removed,
\* nothing is handed to a destination.
DbNoRows ==
    /\ dpc = "export"
    /\ row_count = 0
    /\ scratch' = IF UseTempFile(call) THEN scratch \ {"temp_file"} ELSE scratch
    /\ dresult' = DbNoRowsResult
    /\ dpc' = "done"
    /\ UNCHANGED <<call, source_db_port, connects, fetched, test_row, rows,
                   row_count, written, created, dest_calls>>
    /\ UNCHANGED <<flowVars, fnVars, raceVars>>

\* The file handed to a transfer function: the scratch file as it is on disk
\* while its writer is still open, or a new file the buffer was written to
\* and closed.
FinalFile(c) == IF UseTempFile(c) THEN "temp_file" ELSE "final_file"

\* What a reader of the handed-over file can find: the writer of the scratch
\* file was neither flushed nor closed, so any prefix of the rows written.
FinalPayloads(c, w) ==
    IF UseTempFile(c) THEN {SubSeq(w, 1, n) : n \in 0..Len(w)} ELSE {w}

\* transfer_csv_to_sftp or transfer_csv_to_filesystem with the final file:
\* the file is removed whether the transfer succeeds or not.
DbTransfer(op) ==
    /\ created' = created \cup {FinalFile(call)}
    /\ scratch' = scratch \ {FinalFile(call)}
    /\ \/ \E payload \in FinalPayloads(call, written) :
            /\ dest_calls' = Append(dest_calls, MkDestCall(op, payload, TRUE))
            /\ dresult' = MkResult("success", row_count, <<"Exported", op>>)
       \/ \E payload \in FinalPayloads(call, written) :
            /\ dest_calls' = Append(dest_calls, MkDestCall(op, payload, FALSE))
            /\ dresult' = DbFailed(<<"transfer failed">>)
       \/ /\ dresult' = DbFailed(<<"destination unreachable">>)
          /\ UNCHANGED dest_calls
    /\ dpc' = "done"
    /\ UNCHANGED <<call, source_db_port, connects, fetched, test_row, rows,
                   row_count, written>>
    /\ UNCHANGED <<flowVars, fnVars, raceVars>>

DbTransferSftp ==
    /\ dpc = "export"
    /\ row_count > 0
    /\ call.destination_type = "sftp"
    /\ DbTransfer("sftp.put")

DbTransferFilesystem ==
    /\ dpc = "export"
    /\ row_count > 0
    /\ call.destination_type \in {"nfs", "filesystem"}
    /\ DbTransfer("shutil.copy2")

\* file_size_mb > 25 as a strict comparison that includes 25 MB itself.
UseMultipart_AtBoundary(file_size) == file_size >= MultipartMb * BytesPerMb

\* if file_size_mb > 25: the quotient file_size / (1024 * 1024) is a float,
\* exact for a division by a power of two, so the test is on the bytes.
UseMultipart(file_size) == file_size > MultipartMb * BytesPerMb

\* upload_fileobj with a TransferConfig on the multipart branch, put_object
\* on the other.
UploadOp(file_size) == IF UseMultipart(file_size) THEN "upload_fileobj" ELSE "put_object"

\* Every other destination type: the scratch file is closed, read and
\* removed, then the bytes are uploaded to the object store.  The client or,
\* on the multipart branch, the TransferConfig (it is given the keyword
\* max_multipart_count) may raise before the upload call is made.
DbUploadS3 ==
    /\ dpc = "export"
    /\ row_count > 0
    /\ call.destination_type \notin {"sftp", "nfs", "filesystem"}
    /\ scratch' = IF UseTempFile(call) THEN scratch \ {"temp_file"} ELSE scratch
    /\ \/ /\ dest_calls' = Append(dest_calls,
                                    MkDestCall(UploadOp(call.file_size), written, TRUE))
          /\ dresult' = MkResult("success", row_count,
                                 <<"Exported", UploadOp(call.file_size)>>)
       \/ /\ dest_calls' = Append(dest_calls,
                                    MkDestCall(UploadOp(call.file_size), written, FALSE))
          /\ dresult' = DbFailed(<<"upload failed">>)
       \/ /\ dresult' = DbFailed(<<"no client">>)
          /\ UNCHANGED dest_calls
    /\ dpc' = "done"
    /\ UNCHANGED <<call, source_db_port, connects, fetched, test_row, rows,
                   row_count, written, created>>
    /\ UNCHANGED <<flowVars, fnVars, raceVars>>

NextDb ==
    \/ DbValidate
    \/ DbConnect
    \/ DbExecute
    \/ DbDescribe
    \/ DbOpenOutput
    \/ DbFirstRow
    \/ DbFetch
    \/ DbWrite
    \/ DbNoRows
    \/ DbTransferSftp
    \/ DbTransferFilesystem
    \/ DbUploadS3

SpecDb == InitDb /\ [][NextDb]_vars

(***************************************************************************)
(* Functions of the program applied on their own: the input is drawn from  *)
(* a bounded set, one action per function applies it once.                 *)
(***************************************************************************)
\* "data/in/", the keys list_objects_v2 returns under it, and patterns:
\* "*.csv", "data/in/*.csv", "orders.*", "?otes.txt".
DataPrefix   == <<"d", "a", "t", "a", "/", "i", "n", "/">>
OrdersCsv    == <<"d", "a", "t", "a", "/", "i", "n", "/", "o", "r", "d", "e", "r", "s", ".", "c", "s", "v">>
OrdersBak    == <<"d", "a", "t", "a", "/", "i", "n", "/", "o", "r", "d", "e", "r", "s", ".", "c", "s", "v", ".", "b", "a", "k">>
SubOrdersCsv == <<"d", "a", "t", "a", "/", "i", "n", "/", "s", "u", "b", "/", "o", "r", "d", "e", "r", "s", ".", "c", "s", "v">>
NotesTxt     == <<"d", "a", "t", "a", "/", "i", "n", "/", "n", "o", "t", "e", "s", ".", "t", "x", "t">>
PatCsv       == <<"*", ".", "c", "s", "v">>
PatDataCsv   == <<"d", "a", "t", "a", "/", "i", "n", "/", "*", ".", "c", "s", "v">>
PatOrders    == <<"o", "r", "d", "e", "r", "s", ".", "*">>
PatQuestion  == <<"?", "o", "t", "e", "s", ".", "t", "x", "t">>

MatchPrefixes == {DataPrefix, << >>}
MatchKeys == {DataPrefix, OrdersCsv, OrdersBak, SubOrdersCsv, NotesTxt}
MatchPatterns == {PatStar, PatCsv, PatDataCsv, PatOrders, PatQuestion}

\* Source configurations: without a file_pattern, and with each pattern.
MatchConfigs == {EmptyConfig} \cup {[file_pattern |-> p] : p \in MatchPatterns}

\* One listed key in front of the pattern test of an adapter.
MatchArgs ==
    { [kind |-> "match", prefix |-> x, file_key |-> k, source_config |-> c] :
        x \in MatchPrefixes, k \in MatchKeys, c \in MatchConfigs }

\* file_pattern = source_config.get("file_pattern", "*")
ArgPattern == Get(arg.source_config, "file_pattern", PatStar)

\* Destination tags handed to transfer_files_function: the supported ones
\* and others.
RouterTags == TransferDestTypes \cup {"kafka", "postgres", "S3", ""}
RouterArgs == {[kind |-> "route", destination_type |-> t] : t \in RouterTags}

\* Base and override columns of a connector row: NULL, empty, flat, and with
\* a nested mapping under "opts".
MergeBases ==
    {SqlNull, EmptyConfig, [path |-> "p"],
     [path |-> "p", opts |-> [x |-> "1", y |-> "2"]]}
MergeOverrides ==
    {SqlNull, EmptyConfig, [path |-> "q"], [opts |-> [x |-> "9"]],
     [path |-> "q", extra |-> "e"]}
MergeArgs ==
    { [kind |-> "merge", base |-> b, override |-> o] :
        b \in MergeBases, o \in MergeOverrides }

\* Rows of cai_connector_runs before an update: with and without a row
\* count and a summary; and the arguments of update_run_record, None for
\* an argument left out.  Summaries are not empty: the empty sequence stands
\* for NULL.
StoredRuns ==
    { [ connector_id |-> KnownConnector, status |-> st, finished |-> FALSE,
        rows_ingested |-> n, log_summary |-> l, updates |-> 0 ] :
        st \in {"started", "success"}, n \in {NoRows, 0, 5},
        l \in {NoSummary, <<"Exported">>} }
UpdateArgs ==
    { [kind |-> "update", rec |-> r, status |-> st, rows_ingested |-> n,
       log_summary |-> l] :
        r \in StoredRuns, st \in {"success", "failed"}, n \in {NoRows, 0, 7},
        l \in {NoSummary, <<"Flow error">>} }

\* Requests to the trigger server (each with a Content-Length header): the
\* path, the body (not JSON, JSON without connector_id, connector_id 0, a
\* connector id), whether the flow module was imported, and what
\* run_connector_pipeline does when it is called.
PostBodies == {"not json", "no connector_id", "connector_id 0", "connector_id 1"}
RunOutcomes == {Returned(MkResult("success", 0, <<"Transferred">>)),
                Returned(MkResult("failed", 0, <<"Error">>)),
                Raised("ValueError: Connector not found")}
PostArgs ==
    { [kind |-> "post", path |-> p, body |-> b, flow_available |-> f, run |-> o] :
        p \in {"/trigger", "/other"}, b \in PostBodies, f \in BOOLEAN,
        o \in RunOutcomes }
GetArgs == {[kind |-> "get", path |-> p] : p \in {"/health", "/trigger", "/"}}

\* Calls of get_s3_credentials: the storage environment, the run-scoped
\* configuration (not given, empty, with the access key only, or with every
\* field) and the process environment (nothing set, or every variable set).
CredentialConfigs ==
    { EmptyConfig,
      [aws_access_key_id |-> "run-key"],
      [aws_access_key_id |-> "run-key", aws_secret_access_key |-> "run-secret",
       region |-> "eu-west-1", endpoint_url |-> "http://run:9000"] }
Environs ==
    { EmptyConfig,
      [AWS_ACCESS_KEY_ID |-> "env-key", AWS_SECRET_ACCESS_KEY |-> "env-secret",
       AWS_REGION |-> "ap-south-1", MINIO_ACCESS_KEY |-> "env-minio-key",
       MINIO_SECRET_KEY |-> "env-minio-secret", MINIO_ENDPOINT |-> "http://env:9000"] }
CredentialCalls ==
    { [given |-> FALSE, config |-> EmptyConfig] } \cup
    { [given |-> TRUE, config |-> c] : c \in CredentialConfigs }
CredentialArgs ==
    { [kind |-> "credentials", storage_env |-> e, given |-> g.given, config |-> g.config, environ |-> v] :
        e \in {"production", "development"}, g \in CredentialCalls, v \in Environs }

\* Listings of a source path that holds objects 1..n (numbered in key
\* order), by each adapter that lists with list_objects_v2.
ObjectCounts == {0, 1, 999, 1000, 1001, 2500}
ListingAdapters ==
    {"move_processed_files_function", "transfer_to_sftp_function",
     "transfer_to_filesystem_function", "transfer_to_rest_api_function"}
ListArgs ==
    { [kind |-> "list", adapter |-> a, objects |-> n] :
        a \in ListingAdapters, n \in ObjectCounts }

FnArgs == MatchArgs \cup RouterArgs \cup MergeArgs \cup UpdateArgs \cup PostArgs \cup GetArgs \cup CredentialArgs \cup ListArgs

InitFn ==
    /\ FlowStart(DbRow, {})
    /\ DbIdle
    /\ RaceIdle
    /\ fpc = "input"
    /\ arg \in FnArgs
    /\ val = << >>

\* The function f has been applied to the input and returned v.
FnReturn(f, v) ==
    /\ fpc' = f
    /\ val' = v
    /\ UNCHANGED <<arg, flowVars, dbVars, raceVars>>

\* One round of the loop of move_processed_files_function: is the key moved?
S3Select ==
    /\ fpc = "input"
    /\ arg.kind = "match"
    /\ FnReturn("move_processed_files_function",
                /\ ~EndsWithSlash(arg.file_key)
                /\ S3MatchesWith(arg.prefix, arg.file_key, ArgPattern))

\* One round of the loop of transfer_to_sftp_function.
SftpSelect ==
    /\ fpc = "input"
    /\ arg.kind = "match"
    /\ FnReturn("transfer_to_sftp_function",
                /\ ~EndsWithSlash(arg.file_key)
                /\ SftpMatchesWith(arg.prefix, arg.file_key, ArgPattern))

\* One round of the loop of transfer_to_filesystem_function.
FsSelect ==
    /\ fpc = "input"
    /\ arg.kind = "match"
    /\ FnReturn("transfer_to_filesystem_function",
                /\ ~EndsWithSlash(arg.file_key)
                /\ FsMatchesWith(arg.prefix, arg.file_key, ArgPattern))

\* One round of the loop of transfer_to_rest_api_function.
RestSelect ==
    /\ fpc = "input"
    /\ arg.kind = "match"
    /\ FnReturn("transfer_to_rest_api_function",
                /\ ~EndsWithSlash(arg.file_key)
                /\ RestMatchesWith(arg.prefix, arg.file_key, ArgPattern))

\* transfer_files_function: the adapters it invokes (each named by its
\* first step) and, when it invokes none, the 0 it returns.
Route ==
    /\ fpc = "input"
    /\ arg.kind = "route"
    /\ LET first == TransferFilesFunction(arg.destination_type)
       IN  FnReturn("transfer_files_function",
                    IF first = "unsupported"
                    THEN [invoked |-> {}, returns |-> "0"]
                    ELSE [invoked |-> {first}, returns |-> "the adapter's count"])

\* read_connector_config: the effective configuration of one side.
MergeConfigs ==
    /\ fpc = "input"
    /\ arg.kind = "merge"
    /\ FnReturn("read_connector_config", EffectiveConfig(arg.base, arg.override))

\* update_run_record: the row after the UPDATE.
UpdateRow ==
    /\ fpc = "input"
    /\ arg.kind = "update"
    /\ FnReturn("update_run_record",
                UpdatedRunRecord(arg.rec, arg.status, arg.rows_ingested,
                                 arg.log_summary))

\* FlowHandler.do_POST: the status code sent, and whether
\* run_connector_pipeline was called before it was sent.  Every exception
\* inside the try, json.loads' included, is answered with 500.
Response(code, ran) == [code |-> code, ran |-> ran]
DoPostResponse(req) ==
    IF req.path # "/trigger" THEN Response(404, FALSE)
    ELSE IF req.body = "not json" THEN Response(500, FALSE)
    ELSE IF req.body \in {"no connector_id", "connector_id 0"} THEN Response(400, FALSE)
    ELSE IF ~req.flow_available THEN Response(503, FALSE)
    ELSE IF req.run.kind = "raise" THEN Response(500, TRUE)
    ELSE Response(200, TRUE)

DoPost ==
    /\ fpc = "input"
    /\ arg.kind = "post"
    /\ FnReturn("do_POST", DoPostResponse(arg))

\* FlowHandler.do_GET
DoGet ==
    /\ fpc = "input"
    /\ arg.kind = "get"
    /\ FnReturn("do_GET", Response(IF arg.path = "/health" THEN 200 ELSE 404, FALSE))

\* Python's None.
None == "None"

\* A field resolved from the process alone, when no configuration is used:
\* os.getenv(name[, default]).
ProcessDefault(environ, storage_env, field) ==
    IF storage_env = "production"
    THEN CASE field = "aws_access_key_id" -> Get(environ, "AWS_ACCESS_KEY_ID", None)
           [] field = "aws_secret_access_key" -> Get(environ, "AWS_SECRET_ACCESS_KEY", None)
           [] field = "region_name" -> Get(environ, "AWS_REGION", "us-east-1")
    ELSE CASE field = "aws_access_key_id" -> Get(environ, "MINIO_ACCESS_KEY", "minioadmin")
           [] field = "aws_secret_access_key" -> Get(environ, "MINIO_SECRET_KEY", "minioadmin")
           [] field = "endpoint_url" -> Get(environ, "MINIO_ENDPOINT", "http://minio:9000")

\* The configuration key read for a field of the result.
ConfigKey(field) == IF field = "region_name" THEN "region" ELSE field

\* The fields of the result in each storage environment.
CredentialFields(storage_env) ==
    IF storage_env = "production"
    THEN {"aws_access_key_id", "aws_secret_access_key", "region_name"}
    ELSE {"aws_access_key_id", "aws_secret_access_key", "endpoint_url"}

\* get_s3_credentials(config): for each field, config.get(key) if config else
\* os.getenv(...).  A configuration that is None or empty is falsy.
GetS3CredentialsOf(a) ==
    [ f \in CredentialFields(a.storage_env) |->
        IF a.given /\ a.config # EmptyConfig THEN Get(a.config, ConfigKey(f), None)
        ELSE ProcessDefault(a.environ, a.storage_env, f) ]

GetS3Credentials ==
    /\ fpc = "input"
    /\ arg.kind = "credentials"
    /\ FnReturn("get_s3_credentials", GetS3CredentialsOf(arg))

\* The most keys one list_objects_v2 response holds when the request names
\* no MaxKeys, as the adapters' requests do.
PageLimit == 1000

\* response = s3_client.list_objects_v2(Bucket=..., Prefix=prefix) for a path
\* holding objects 1..n: the first page, and whether the store has more.
ListObjectsV2Page(n) ==
    [ Contents |-> 1..(IF n < PageLimit THEN n ELSE PageLimit),
      IsTruncated |-> n > PageLimit ]

\* The objects an adapter's loop "for obj in response['Contents']" examines:
\* the response is read once, IsTruncated and NextContinuationToken are not.
ExamineListing ==
    /\ fpc = "input"
    /\ arg.kind = "list"
    /\ FnReturn("list_objects_v2", [examined |-> ListObjectsV2Page(arg.objects).Contents])

NextFn ==
    \/ Route
    \/ ExamineListing
    \/ GetS3Credentials
    \/ DoPost
    \/ DoGet
    \/ UpdateRow
    \/ MergeConfigs
    \/ S3Select
    \/ SftpSelect
    \/ FsSelect
    \/ RestSelect

SpecFn == InitFn /\ [][NextFn]_vars

(***************************************************************************)
(* Two calls of move_processed_files_function for the same connector,      *)
(* dispatched side by side: each has its own locals, the buckets are       *)
(* shared, and the calls of the store interleave freely.  The store's      *)
(* calls fail here only where the other call's steps make them fail.       *)
(***************************************************************************)
ConcurrentCalls == {1, 2}

\* What the source path holds when the first call starts.
RaceSources == {{KeyMarker, KeyA}, {KeyMarker, KeyA, KeyB}}

\* A call before its listing.
NewAdapter == [pc |-> "list", listing |-> << >>, idx |-> 0, moved_count |-> 0, ret |-> 0]

InitRace ==
    /\ FlowStart(DbRow, {})
    /\ DbIdle
    /\ FnIdle
    /\ source_bucket \in RaceSources
    /\ dest_bucket = {}
    /\ adapters = [c \in ConcurrentCalls |-> NewAdapter]

\* The step of call c changes its locals to a.
RaceStep(c, a) ==
    /\ adapters' = [adapters EXCEPT ![c] = a]
    /\ UNCHANGED <<flowVars, dbVars, fnVars>>

\* response = s3_client.list_objects_v2(Bucket=source_bucket, Prefix=prefix)
RaceList(c) ==
    /\ adapters[c].pc = "list"
    /\ RaceStep(c, [adapters[c] EXCEPT !.pc = "loop", !.idx = 1,
                       !.listing = ListObjectsV2(source_bucket, Prefix)])
    /\ UNCHANGED <<source_bucket, dest_bucket>>

\* for obj in response['Contents'], with the default pattern "*": a marker
\* is skipped; return moved_count after the last object.
RaceNext(c) ==
    LET a == adapters[c] IN
    /\ a.pc = "loop"
    /\ IF a.idx > Len(a.listing)
         THEN RaceStep(c, [a EXCEPT !.pc = "ret", !.ret = a.moved_count])
         ELSE IF EndsWithSlash(a.listing[a.idx]) \/ ~S3Matches(a.listing[a.idx], PatStar)
              THEN RaceStep(c, [a EXCEPT !.idx = a.idx + 1])
              ELSE RaceStep(c, [a EXCEPT !.pc = "copy"])
    /\ UNCHANGED <<source_bucket, dest_bucket>>

\* s3_client.copy_object(...): the object is written under dest_key; when the
\* source key is gone the call raises and the handler returns 0.
RaceCopy(c) ==
    LET a == adapters[c]
        file_key == a.listing[a.idx]
    IN  /\ a.pc = "copy"
        /\ IF file_key \in source_bucket
             THEN /\ dest_bucket' = KeyedWrite(dest_bucket, DestKey(file_key), file_key)
                  /\ RaceStep(c, [a EXCEPT !.pc = "delete"])
             ELSE /\ RaceStep(c, [a EXCEPT !.pc = "ret", !.ret = 0])
                  /\ UNCHANGED dest_bucket
        /\ UNCHANGED source_bucket

\* s3_client.delete_object(...); moved_count += 1.  Deleting a key that is
\* already gone is answered like any delete.
RaceDelete(c) ==
    LET a == adapters[c]
        file_key == a.listing[a.idx]
    IN  /\ a.pc = "delete"
        /\ source_bucket' = source_bucket \ {file_key}
        /\ RaceStep(c, [a EXCEPT !.pc = "loop", !.idx = a.idx + 1,
                                 !.moved_count = a.moved_count + 1])
        /\ UNCHANGED dest_bucket

NextRace ==
    \/ \E c \in ConcurrentCalls : RaceList(c)
    \/ \E c \in ConcurrentCalls : RaceNext(c)
    \/ \E c \in ConcurrentCalls : RaceCopy(c)
    \/ \E c \in ConcurrentCalls : RaceDelete(c)

SpecRace == InitRace /\ [][NextRace]_vars

(***************************************************************************)
(* Properties.                                                             *)
(***************************************************************************)
Terminated == pc \in {"returned", "raised"}

\* The contents the destination holds.
Delivered == {d[2] : d \in dst}

\* C1: no loss.  In every state of a transfer batch, whatever call failed,
\* every file the source held when the batch started is at the source or its
\* content is at the destination.
C1_NoFileLost ==
    \A k \in src0 : k \in src \/ k \in Delivered

\* C2: delete after acknowledge.  Every step that removes a key from the
\* source is taken in the loop iteration of that key, after the write of that
\* same key to the destination returned without error in that iteration.
C2_DeleteAfterAck ==
    [][\A k \in src \ src' : acked = k /\ FileKey = k]_vars

\* A delete has acted: a key of the batch has left the source.
C2_Witness ==
    /\ pc = "transfer"
    /\ apc \in {"s3_loop", "sftp_loop", "fs_loop", "rest_loop"}
    /\ src0 \ src # {}

TerminalStatuses == {"success", "failed"}

\* C3 as stated: every invocation, a failure of the recorder's own create or
\* update call included, ends with exactly one started record inserted and
\* exactly one terminal update committed.
C3_OneStartedOneTerminalUpdate ==
    Terminated => hist.created = 1 /\ hist.updatesCommitted = 1

\* C3 as amended: an invocation inserts at most one started record, and
\* exactly one when create_run_record returns; it attempts update_run_record
\* exactly once, after the run's work has ended, when create_run_record
\* returned a run id, and never when it raised; that attempt commits exactly
\* one terminal update when update_run_record returns and at most one when it
\* raises; a record whose update did not commit, or whose create call raised
\* after its commit, stays `started`.
C3_RunRecordLifecycle ==
    /\ hist.created <= 1
    /\ hist.updateAttempts <= 1
    /\ hist.updatesCommitted <= hist.updateAttempts
    /\ hist.updateAttempts > 0 => Terminated
    /\ Terminated =>
        /\ ~hist.createRaised => hist.created = 1
        /\ (run_id # 0) = ~hist.createRaised
        /\ hist.updateAttempts = IF run_id # 0 THEN 1 ELSE 0
        /\ ~hist.updateRaised => hist.updatesCommitted = hist.updateAttempts
        /\ run_id # 0 =>
              /\ runs[run_id].updates = hist.updatesCommitted
              /\ (runs[run_id].status = "started") = (hist.updatesCommitted = 0)
              /\ (runs[run_id].status \in TerminalStatuses) = (hist.updatesCommitted = 1)
        /\ (hist.createRaised /\ hist.created = 1) =>
              runs[Len(runs)].status = "started"

\* A run whose extraction raised, with its record inserted and updated once.
C3_Witness ==
    /\ pc = "raised"
    /\ hist.firstExc = "KeyError"
    /\ hist.created = 1
    /\ hist.updatesCommitted = 1
    /\ runs[run_id].status = "failed"

\* C4: over every sequence of runs a record is inserted as `started`, its
\* status changes only from `started` to `success` or `failed`, a record in a
\* terminal status is never changed again, and no record gets more than one
\* update.
C4_StatusOnlyStartedToTerminal ==
    [][ /\ Len(runs') >= Len(runs)
        /\ \A i \in DOMAIN runs' :
              IF i \in DOMAIN runs
              THEN /\ runs[i].status \in TerminalStatuses => runs'[i] = runs[i]
                   /\ runs'[i].status # runs[i].status =>
                         /\ runs[i].status = "started"
                         /\ runs'[i].status \in TerminalStatuses
                   /\ runs'[i].updates <= 1
              ELSE /\ runs'[i].status = "started"
                   /\ runs'[i].updates = 0 ]_vars

\* Two runs have been recorded, one ended `success` and one `failed`.
C4_Witness ==
    /\ Len(runs) = 2
    /\ runs[1].status = "success"
    /\ runs[2].status = "failed"
    /\ runs[1].updates = 1

\* C5: when config resolution or run_dlt_pipeline raised, the flow ends by
\* raising that same exception, never by returning; and when a run record
\* was created, update_run_record was attempted once, with status `failed`,
\* before the exception left, whether or not that attempt raised.
C5_FailedUpdateThenReraise ==
    /\ (Terminated /\ hist.firstExc # "none") => pc = "raised"
    /\ pc = "raised" =>
        /\ hist.firstExc # "none"
        /\ outcome = Raised(hist.firstExc)
        /\ run_id # 0 =>
              /\ hist.updateAttempts = 1
              /\ hist.attemptedStatus = "failed"
              /\ ~hist.updateRaised => runs[run_id].status = "failed"

\* run_dlt_pipeline raised, the record exists, and the update itself raised.
C5_Witness ==
    /\ pc = "raised"
    /\ run_id # 0
    /\ hist.updateRaised
    /\ hist.firstExc = "KeyError"
    /\ outcome = Raised("KeyError")

\* C6: what the caller gets is decided by config resolution and
\* run_dlt_pipeline alone: their result is returned, or their exception
\* raised, whether or not create_run_record or update_run_record raised; and
\* when create_run_record raised, config resolution and the pipeline were
\* still called and no update was attempted.
C6_RecorderFailureKeepsOutcome ==
    Terminated =>
        /\ outcome = IF hist.firstExc = "none"
                     THEN Returned(hist.pipelineResult)
                     ELSE Raised(hist.firstExc)
        /\ hist.createRaised =>
              /\ hist.updateAttempts = 0
              /\ hist.configCalled
              /\ hist.firstExc = "none" => hist.pipelineStarted

\* create_run_record raised and the run still transferred files and returned.
C6_Witness ==
    /\ pc = "returned"
    /\ hist.createRaised
    /\ hist.pipelineStarted
    /\ outcome.result.status = "success"
    /\ src0 \ src # {}

\* C7 as stated: a run whose adapter left through its except handler has the
\* result status `failed`, and so has its run record.
C7_AdapterErrorIsFailed ==
    (Terminated /\ aerr) =>
        /\ outcome.result.status = "failed"
        /\ (run_id # 0 /\ ~hist.updateRaised) => runs[run_id].status = "failed"

\* C8 as stated: no exception crosses the invocation boundary; the caller
\* always gets a result with status `success` or `failed`.
C8_NoExceptionCrosses ==
    Terminated =>
        /\ outcome.kind = "return"
        /\ outcome.result.status \in TerminalStatuses

\* C8 as amended: run_connector_pipeline returns a result with status
\* `success` or `failed`, a count and a summary whenever config resolution
\* and run_dlt_pipeline return, every failure inside an adapter included; it
\* raises, with the original exception, exactly when config resolution (an
\* unknown connector id, the store unreachable) or run_dlt_pipeline raised.
C8_ResultOrOriginalException ==
    Terminated =>
        /\ outcome.kind \in {"return", "raise"}
        /\ outcome.kind = "return" =>
              /\ hist.firstExc = "none"
              /\ outcome.result.status \in TerminalStatuses
              /\ outcome.result.rows_ingested >= 0
              /\ outcome.result.log_summary # NoSummary
        /\ outcome.kind = "raise" =>
              /\ outcome.exc = hist.firstExc
              /\ outcome.exc \in {"OperationalError",
                                  "ValueError: Connector not found", "KeyError"}
        /\ connector_id = UnknownConnector => outcome.kind = "raise"
        /\ aerr => outcome.kind = "return"

\* An unknown connector id: the not-found error reaches the caller.
C8_Witness ==
    /\ pc = "raised"
    /\ connector_id = UnknownConnector
    /\ outcome = Raised("ValueError: Connector not found")

\* The files of the batch the REST adapter's pattern test selects.
RestSelected == {k \in src0 : ~EndsWithSlash(k) /\ RestMatches(k, FilePattern)}

\* C9 as stated: when the REST adapter returns from a batch it has listed,
\* the files deleted from the source are exactly those whose upload got a
\* success status, every selected file was attempted, and the count returned
\* is the number of files that succeeded.
C9_RestCountIsSucceeded ==
    (/\ apc = "ret"
     /\ config.destination_type = "rest_api"
     /\ listing # << >>) =>
        /\ src0 \ src = uploaded
        /\ uploaded \cup failedUploads = RestSelected
        /\ ret = Cardinality(uploaded)

\* C10 as stated: at most 3 requests are sent for one file.
C10_AtMostThreeRequests == reqs <= 3

\* The exchanges the adapter's Retry answers by sending the request again.
Retried(method) == {x \in Exchanges : x = ConnectionFailed \/ IsRetry(method, x)}

\* C10 as amended: at most 4 requests are sent for one file (the first and up
\* to 3 retries); a file whose every request met a connection failure or a
\* retried status was sent exactly 4 times before it was given up; and a file
\* given up is marked failed, is not counted and is still at the source.
C10_RetryBound ==
    /\ reqs <= RetryTotal + 1
    /\ \A k \in exhausted : k \in src /\ k \in failedUploads /\ k \notin uploaded
    /\ (/\ apc \in {"rest_loop", "ret"}
        /\ answers # {}
        /\ answers \subseteq Retried(HttpMethod)) =>
          /\ reqs = RetryTotal + 1
          /\ exhausted # {}

\* Every request of a POST was answered 503 and the file was given up.
C10_Witness ==
    /\ apc = "rest_loop"
    /\ answers = {503}
    /\ HttpMethod = "POST"
    /\ reqs = RetryTotal + 1
    /\ idx > 1
    /\ listing[idx - 1] \in exhausted
    /\ listing[idx - 1] \in src

C12_FailedFileSkippedBatchContinues ==
    (/\ apc = "ret"
     /\ config.destination_type \in {"s3", "sftp", "nfs"}
     /\ listing # << >>) =>
        idx > Len(listing)

\* C13: when the SFTP session could not be opened the batch is aborted: as
\* long as there is no transport nothing has been listed, downloaded,
\* uploaded or deleted, and the adapter then returns 0 through its handler.
C13_SftpConnectFailureAbortsBatch ==
    (/\ pc = "transfer"
     /\ config.destination_type = "sftp"
     /\ transport = "none") =>
        /\ apc \in {"sftp_connect", "ret"}
        /\ listing = << >>
        /\ idx = 0
        /\ src = src0
        /\ dst = dst0
        /\ acked = NoKey
        /\ apc = "ret" => ret = 0 /\ aerr

\* The session could not be opened while the source held files.
C13_Witness ==
    /\ pc = "transfer"
    /\ config.destination_type = "sftp"
    /\ apc = "ret"
    /\ transport = "none"
    /\ aerr
    /\ {KeyA, KeyB} \subseteq src

\* The files of the batch the object-store adapter's pattern test selects.
S3Selected == {k \in src0 : ~EndsWithSlash(k) /\ S3Matches(k, FilePattern)}

\* C14: an object-store transfer can be run again.  The destination never
\* holds two objects for one source file; a batch that ends without error
\* leaves every selected file absent from the source and one object under its
\* destination key, the file's own content unless another selected file has
\* the same name, also when the file was at the destination already because
\* an earlier run copied it and failed before the delete; and a file an
\* earlier run moved is not in the listing and its destination object is not
\* touched.
C14_IdempotentRerun ==
    row.dest_type = "s3" =>
        /\ \A k \in Keys : Cardinality({d \in dst : d[2] = k}) <= 1
        /\ \A i \in DOMAIN listing : listing[i] \in src0
        /\ pc = "transfer" =>
              \A d \in dst0 : (\A k \in S3Selected : FileName(k) # d[1]) => d \in dst
        /\ (pc = "transfer" /\ apc = "ret" /\ ~aerr) =>
              \A k \in S3Selected :
                  /\ k \notin src
                  /\ Cardinality({d \in dst : d[1] = FileName(k)}) = 1
                  /\ (\A k2 \in S3Selected : FileName(k2) = FileName(k) => k2 = k)
                        => <<FileName(k), k>> \in dst

\* The second run of a transfer whose first run copied in/a.c and failed
\* before deleting it: the file was at both places, and is now moved.
C14_Witness ==
    /\ row.dest_type = "s3"
    /\ invocations = 2
    /\ pc = "transfer"
    /\ apc = "ret"
    /\ ~aerr
    /\ KeyA \in src0
    /\ <<FileName(KeyA), KeyA>> \in dst0
    /\ KeyA \notin src
    /\ {d \in dst : d[1] = FileName(KeyA)} = {<<FileName(KeyA), KeyA>>}


\* C15: whatever the batch size, a call that exports R rows gives each of the
\* R rows of the result set to the CSV writer exactly once, in order, and
\* reports rows_ingested = R; this holds on the server-side cursor path (a
\* peek with fetchone, then fetchmany(batch_size)) and on the regular cursor
\* path (one fetchall).
C15_RowCountInvariant ==
    (dpc = "done" /\ dresult.status = "success") =>
        /\ written = RowRange(1, call.result_rows)
        /\ row_count = call.result_rows
        /\ dresult.rows_ingested = call.result_rows

\* A server-side cursor export of three rows in batches of two: the peeked
\* row, one full batch, and the empty batch that ends the loop.
C15_Witness ==
    /\ dpc = "done"
    /\ dresult.status = "success"
    /\ call.use_server_side_cursor
    /\ call.batch_size = 2
    /\ call.result_rows = MaxRows
    /\ dresult.rows_ingested = MaxRows


\* C16: when the query of a call has returned 0 rows (the fetch loop has
\* ended with nothing fetched), the call returns success with row count 0,
\* no destination call has been made and no scratch file remains; this holds
\* for the server-side and the regular cursor, with and without a scratch
\* file.
C16_ZeroRowQuery ==
    [][(dpc = "export" /\ call.result_rows = 0) =>
          /\ dpc' = "done"
          /\ dresult'.status = "success"
          /\ dresult'.rows_ingested = 0
          /\ dest_calls' = << >>
          /\ scratch' = {}]_vars

\* A zero-row export that had opened a scratch file has returned.
C16_Witness ==
    /\ dpc = "done"
    /\ call.result_rows = 0
    /\ call.description = "columns"
    /\ "temp_file" \in created
    /\ dresult = DbNoRowsResult


\* C17: when handle_database_source has returned, on whatever exit path,
\* every scratch file created during the call has been removed.
C17_ScratchFilesRemoved ==
    dpc = "done" => scratch = {}

\* The fields C18 ranges over.
C18Fields == {"host", "database", "username", "password", "query"}

\* C18: when any of host, database, username, password, query is absent
\* from the source configuration, the call returns a failed result whose
\* message is the configuration error followed by every absent field, and
\* psycopg2.connect is never called.
C18_MissingFieldsAllListed ==
    (call.missing \cap C18Fields # {}) =>
        /\ connects = 0
        /\ dpc \in {"validate", "done"}
        /\ dpc = "done" =>
              /\ dresult.status = "failed"
              /\ dresult.rows_ingested = 0
              /\ dresult.log_summary[2] = "Missing required source configuration fields"
              /\ \A f \in call.missing \cap C18Fields :
                    \E i \in 3..Len(dresult.log_summary) : dresult.log_summary[i] = f

\* A call without host, password and query has returned.
C18_Witness ==
    /\ dpc = "done"
    /\ call.missing = {"host", "password", "query"}
    /\ Len(dresult.log_summary) = 5

\* C19: a source configuration with every required field but the port is
\* not rejected by the validation, and the connection is made on port 5432.
C19_PortDefaultsTo5432 ==
    (call.missing = {"port"} /\ dpc # "validate") =>
        /\ source_db_port = DefaultPort
        /\ connects > 0 \/ dpc = "connect"

\* C20: a call whose cursor has no column description after the query was
\* executed never returns success, on the server-side cursor path whether
\* the peek returned a row or not, and on the regular cursor path.
C20_NoDescriptionIsFailed ==
    (dpc = "done" /\ call.description = "none") => dresult.status = "failed"


MatchingAdapters ==
    {"move_processed_files_function", "transfer_to_sftp_function",
     "transfer_to_filesystem_function", "transfer_to_rest_api_function"}

\* C22: in each of the four adapters a listed key is selected exactly when
\* its bare file name matches the pattern, or its full key matches
\* prefix + pattern, or its full key matches the pattern unmodified; the four
\* adapters therefore agree on every key.
C22_SamePatternRuleInEveryAdapter ==
    (fpc \in MatchingAdapters) =>
        (val <=> /\ ~EndsWithSlash(arg.file_key)
                 /\ \/ FnMatch(FileName(arg.file_key), ArgPattern)
                    \/ FnMatch(arg.file_key, arg.prefix \o ArgPattern)
                    \/ FnMatch(arg.file_key, ArgPattern))

\* str.endswith(suffix)
EndsWith(s, suffix) ==
    Len(suffix) <= Len(s) /\ SubSeq(s, Len(s) - Len(suffix) + 1, Len(s)) = suffix

\* C24: under the pattern "*.csv" every adapter selects a listed key exactly
\* when the key ends in ".csv"; so with the prefix "data/in/" the key
\* "data/in/orders.csv" is selected and "data/in/orders.csv.bak" is not.
C24_CsvPatternSelectsCsvKeys ==
    (fpc \in MatchingAdapters /\ ArgPattern = PatCsv) =>
        /\ val <=> EndsWith(arg.file_key, <<".", "c", "s", "v">>)
        /\ arg.file_key = OrdersCsv => val
        /\ arg.file_key = OrdersBak => ~val

\* "data/in/orders.csv.bak" has been tested against "*.csv" under the prefix
\* "data/in/" and was not selected.
C24_Witness ==
    /\ fpc = "move_processed_files_function"
    /\ arg.prefix = DataPrefix
    /\ ArgPattern = PatCsv
    /\ arg.file_key = OrdersBak
    /\ val = FALSE


\* C23: in every adapter, with the pattern "*" (also when source_config has
\* no file_pattern) a listed key is selected exactly when it does not end in
\* "/"; and whatever the pattern, a key ending in "/" is never selected, so
\* that it is neither copied, uploaded nor deleted.
C23_StarSelectsAllButMarkers ==
    (fpc \in MatchingAdapters) =>
        /\ ArgPattern = PatStar => (val <=> ~EndsWith(arg.file_key, <<"/">>))
        /\ EndsWith(arg.file_key, <<"/">>) => ~val

\* The marker "data/in/" has been tested by the SFTP adapter under a source
\* configuration without file_pattern, and was skipped.
C23_Witness ==
    /\ fpc = "transfer_to_sftp_function"
    /\ arg.source_config = EmptyConfig
    /\ arg.file_key = DataPrefix
    /\ val = FALSE


\* C25: transfer_files_function invokes exactly one adapter for each of the
\* tags s3, sftp, nfs, filesystem and rest_api, the adapter of that tag (nfs
\* and filesystem share one); for any other tag it invokes none and returns
\* 0.
C25_RouterDispatch ==
    (fpc = "transfer_files_function") =>
        LET tag == arg.destination_type
        IN  /\ tag = "s3" => val.invoked = {"s3_list"}
            /\ tag = "sftp" => val.invoked = {"sftp_connect"}
            /\ tag \in {"nfs", "filesystem"} => val.invoked = {"fs_list"}
            /\ tag = "rest_api" => val.invoked = {"rest_config"}
            /\ tag \notin {"s3", "sftp", "nfs", "filesystem", "rest_api"} =>
                  val.invoked = {} /\ val.returns = "0"

\* The router was handed a tag it does not support.
C25_Witness ==
    /\ fpc = "transfer_files_function"
    /\ arg.destination_type = "kafka"
    /\ val.invoked = {}


\* The keys of a config column, none for NULL.
ColumnKeys(column) == IF column = SqlNull THEN {} ELSE DOMAIN column

\* C26: the effective configuration has exactly the keys of the base and of
\* the override; a key of the override has the override's whole value, nested
\* mappings included, a key only the base has keeps the base's value; a NULL
\* base or override counts as empty.
C26_ShallowMerge ==
    (fpc = "read_connector_config") =>
        /\ DOMAIN val = ColumnKeys(arg.base) \cup ColumnKeys(arg.override)
        /\ \A k \in ColumnKeys(arg.override) : val[k] = arg.override[k]
        /\ \A k \in ColumnKeys(arg.base) \ ColumnKeys(arg.override) : val[k] = arg.base[k]

\* A base with a nested mapping under "opts" was merged with an override
\* that has "opts" too: the override's mapping replaced the base's.
C26_Witness ==
    /\ fpc = "read_connector_config"
    /\ arg.base = [path |-> "p", opts |-> [x |-> "1", y |-> "2"]]
    /\ arg.override = [opts |-> [x |-> "9"]]
    /\ val = [path |-> "p", opts |-> [x |-> "9"]]


\* C27 as stated: an invocation for a connector id no row has ends with its
\* run record in status `failed`.
C27_UnknownConnectorRecordFailed ==
    (pc = "raised" /\ connector_id = UnknownConnector /\ run_id # 0) =>
        runs[run_id].status = "failed"

\* C27 as amended: in an invocation for a connector id no row has, config
\* resolution raises (the not-found error when its query ran), the
\* extract/transfer step is never started, source and destination are left
\* as they were, the invocation ends by raising that exception, and the run
\* record that was created ends `failed` when the failure update committed
\* and stays `started` when update_run_record raised before its commit.
C27_UnknownConnectorFails ==
    [][(connector_id = UnknownConnector /\ pc # "idle" /\ invocations' = invocations) =>
          /\ src' = src
          /\ dst' = dst
          /\ apc' = "idle"
          /\ pc' \notin {"pipeline", "transfer", "update", "returned"}
          /\ ~hist'.pipelineStarted
          /\ pc' = "raised" =>
                /\ hist'.firstExc \in {"ValueError: Connector not found", "OperationalError"}
                /\ outcome' = Raised(hist'.firstExc)
                /\ run_id # 0 =>
                      runs'[run_id].status =
                          IF hist'.updatesCommitted = 1 THEN "failed" ELSE "started"]_vars

\* An invocation for an unknown id has raised the not-found error and its
\* record is `failed`.
C27_Witness ==
    /\ pc = "raised"
    /\ connector_id = UnknownConnector
    /\ hist.firstExc = "ValueError: Connector not found"
    /\ run_id # 0
    /\ runs[run_id].status = "failed"
    /\ ~hist.pipelineStarted


\* C28: when the SFTP adapter returns, on whatever path, a transport it had
\* opened has been closed.
C28_SftpTransportClosedOnReturn ==
    (apc = "ret" /\ config.destination_type = "sftp") => transport # "open"


\* C29: update_run_record always stores the status it is given and the end
\* timestamp; it stores the row count (the summary) it is given, and keeps
\* the stored row count (summary) when it is given none.
C29_UpdateKeepsAbsentValues ==
    (fpc = "update_run_record") =>
        /\ val.status = arg.status
        /\ val.finished
        /\ val.rows_ingested =
              IF arg.rows_ingested = NoRows THEN arg.rec.rows_ingested
              ELSE arg.rows_ingested
        /\ val.log_summary =
              IF arg.log_summary = NoSummary THEN arg.rec.log_summary
              ELSE arg.log_summary

\* A row with 5 rows and a summary was updated to `failed` with a summary and
\* no row count: the 5 is kept.
C29_Witness ==
    /\ fpc = "update_run_record"
    /\ arg.rec.rows_ingested = 5
    /\ arg.status = "failed"
    /\ arg.rows_ingested = NoRows
    /\ arg.log_summary = <<"Flow error">>
    /\ val.rows_ingested = 5
    /\ val.log_summary = <<"Flow error">>


\* C30: while the REST adapter runs with a destination configuration that
\* has neither url nor endpoint_url, no source object is listed, downloaded
\* or deleted, nothing reaches the destination and no HTTP request is sent;
\* the adapter ends in its error handler and returns 0.
C30_NoEndpointNoTransfer ==
    (pc = "transfer" /\ config.destination_type = "rest_api"
     /\ "url" \notin DOMAIN config.destination_config
     /\ "endpoint_url" \notin DOMAIN config.destination_config) =>
        /\ apc \in {"rest_config", "ret"}
        /\ listing = << >>
        /\ src = src0
        /\ dst = dst0
        /\ reqs = 0
        /\ uploaded = {}
        /\ apc = "ret" => (aerr /\ ret = 0)

\* The REST adapter has returned from a source with files in it, for want
\* of an endpoint URL.
C30_Witness ==
    /\ pc = "transfer"
    /\ apc = "ret"
    /\ aerr
    /\ config.destination_type = "rest_api"
    /\ DOMAIN config.destination_config = {"path"}
    /\ KeyA \in src


\* C31: POST /trigger answers 400 without a connector_id, 503 when the flow
\* module is unavailable, 500 when the run raises or returns a result whose
\* status is `failed`, and 200 only when the run was executed and succeeded;
\* GET /health answers 200.
C31_TriggerStatusCodes ==
    /\ (fpc = "do_GET" /\ arg.path = "/health") => val.code = 200
    /\ (fpc = "do_POST" /\ arg.path = "/trigger" /\ arg.body # "not json") =>
          IF arg.body # "connector_id 1" THEN val.code = 400
          ELSE IF ~arg.flow_available THEN val.code = 503
          ELSE /\ val.ran
               /\ val.code = IF /\ arg.run.kind = "return"
                                /\ arg.run.result.status = "success"
                             THEN 200 ELSE 500


\* C32 (as stated): the configuration is resolved before the run record is
\* created: whenever the invocation has inserted its record,
\* read_connector_config has already been called.
C32_ConfigBeforeRecord ==
    hist.created > 0 => hist.configCalled

\* C32 (amended): in every run create_run_record is called before the
\* configuration is resolved, the configuration is resolved before
\* extract/transfer starts, the record's terminal update is attempted only
\* after extract/transfer has ended (with a result or an exception), and a
\* run that returns with a record id has attempted that update before
\* returning.
C32_StepOrder ==
    /\ pc \in {"config", "pipeline", "transfer", "update", "except", "returned", "raised"} =>
          (hist.created > 0 \/ hist.createRaised)
    /\ pc = "create" => (~hist.configCalled /\ config = EmptyConfig)
    /\ hist.pipelineStarted => (hist.configCalled /\ config # EmptyConfig)
    /\ pc \in {"create", "config", "pipeline", "transfer"} => hist.updateAttempts = 0
    /\ hist.updateAttempts > 0 =>
          (hist.pipelineResult # NoResult \/ hist.firstExc # "none")
    /\ (pc = "returned" /\ run_id # 0) => hist.updateAttempts = 1

C32_StepOrder_Witness ==
    /\ pc = "returned"
    /\ run_id # 0
    /\ hist.created = 1
    /\ hist.pipelineStarted
    /\ hist.updatesCommitted = 1
    /\ result = TransferResult(1)


\* C34: for each credential field, when a run-scoped configuration is given
\* but does not contain the field, get_s3_credentials returns the
\* process-wide default of that field (environment variable or built-in
\* default).
C34_CredentialFallbackPerField ==
    (fpc = "get_s3_credentials" /\ arg.given) =>
        \A f \in DOMAIN val :
            ConfigKey(f) \notin DOMAIN arg.config =>
                val[f] = ProcessDefault(arg.environ, arg.storage_env, f)


\* C33: when the exporter opens its output it creates a scratch file exactly
\* when the batch size is above 1000 or the use_temp_file flag is set, and
\* writes to the in-memory buffer otherwise: batch size 1000 without the flag
\* uses the buffer, 1001 a scratch file, and an absent batch size (default
\* 10000) a scratch file.
C33_ScratchFileThreshold ==
    [][(dpc = "open" /\ dpc' = "first") =>
          LET size == IF call.batch_size = NoBatchSize THEN 10000 ELSE call.batch_size
              file == "temp_file" \in created' /\ "temp_file" \in scratch'
              buffer == created' = created /\ scratch' = scratch
          IN  /\ "temp_file" \notin created
              /\ IF size > 1000 \/ call.use_temp_file THEN file ELSE buffer
              /\ (call.batch_size = 1000 /\ ~call.use_temp_file) => buffer
              /\ call.batch_size = 1001 => file
              /\ call.batch_size = NoBatchSize => file]_vars

C33_ScratchFileThreshold_Witness ==
    /\ dpc = "first"
    /\ call.batch_size = NoBatchSize
    /\ ~call.use_temp_file
    /\ "temp_file" \in scratch

\* The buffer side of the threshold has been exercised as well.
C33_BufferAtThreshold_Witness ==
    /\ dpc = "first"
    /\ call.batch_size = 1000
    /\ ~call.use_temp_file
    /\ "temp_file" \notin created


\* C35: every object under the source path when a file-matching transfer
\* starts is examined against the pattern in that run, for any number of
\* objects, also when the store answers with a truncated listing.
C35_CompleteListing ==
    fpc = "list_objects_v2" => val.examined = 1..arg.objects


\* C36: within one batch of the object-store, SFTP or filesystem adapter, two
\* different source keys that were both transferred were written to two
\* different destination keys, and each transferred file is still what its
\* destination key holds.
C36_DistinctDestinationKeys ==
    (/\ pc = "transfer"
     /\ config.destination_type \in {"s3", "sftp", "nfs", "filesystem"}) =>
        LET moved == src0 \ src
        IN  /\ \A k1, k2 \in moved : k1 # k2 => DestKey(k1) # DestKey(k2)
            /\ \A k \in moved : \E d \in dst : d[2] = k


\* C37: the count a file-matching adapter returns equals the number of source
\* files its call delivered and deleted from the source, on every exit path,
\* also when an error occurred after some files were already moved.
C37_AccurateTransferCount ==
    (pc = "transfer" /\ apc = "ret") => ret = Cardinality(src0 \ src)


\* C38: when the rows were written to a scratch file and the destination is
\* SFTP or the filesystem, the file handed to the transfer function holds all
\* the rows written, as many as the row count reported in the result.
C38_CompletePayloadOnHandOff ==
    \A i \in DOMAIN dest_calls :
        (/\ dest_calls[i].op \in {"sftp.put", "shutil.copy2"}
         /\ dest_calls[i].ok
         /\ "temp_file" \in created) =>
            /\ dest_calls[i].payload = written
            /\ Len(dest_calls[i].payload) = dresult.rows_ingested


\* C39: in a database-source run the payload is delivered only through the
\* adapter of the configured destination type, and for a destination type
\* without a payload adapter (rest_api or an unknown tag) nothing is uploaded
\* to an object store and a run that exported rows ends `failed`.
C39_PayloadDispatchByTag ==
    LET ops == {dest_calls[i].op : i \in DOMAIN dest_calls}
        dt == call.destination_type
    IN  /\ dt = "s3" => ops \subseteq {"put_object", "upload_fileobj"}
        /\ dt = "sftp" => ops \subseteq {"sftp.put"}
        /\ dt \in {"nfs", "filesystem"} => ops \subseteq {"shutil.copy2"}
        /\ dt \notin {"s3", "sftp", "nfs", "filesystem"} =>
              /\ ops = {}
              /\ (dpc = "done" /\ row_count > 0) => dresult.status = "failed"


\* C40 (first part): under every interleaving of two calls on one listing no
\* file is lost: each file a call has listed is at the source or its content
\* is at the destination.
C40_NoFileLostWhenRacing ==
    \A c \in DOMAIN adapters : \A i \in DOMAIN adapters[c].listing :
        LET k == adapters[c].listing[i]
        IN  EndsWithSlash(k) \/ k \in source_bucket \/ \E d \in dest_bucket : d[2] = k

\* C40: under every interleaving of the list, copy and delete steps of two
\* calls on one listing no file is lost, and each source file is counted as
\* transferred by at most one of the two calls: the two counts returned add
\* up to no more than the files that were moved.
C40_TwoConcurrentRuns ==
    /\ C40_NoFileLostWhenRacing
    /\ (\A c \in DOMAIN adapters : adapters[c].pc = "ret") =>
          adapters[1].ret + adapters[2].ret <= Cardinality({d[2] : d \in dest_bucket})

=============================================================================
